---- MODULE Spec2Model ----
(***************************************************************************)
(* Face verification engine of the ID verification system:                 *)
(*   app/services/face_verification_service.py          (embedding path)   *)
(*   app/services/face_verification_service_fallback.py (heuristic path)   *)
(*   app/routes/verification_routes.py                  (/verify, /compare-faces) *)
(* and, around it, the camera service (app/services/camera_service.py),    *)
(* the PDF service (app/services/pdf_service.py) and /upload-id-card.       *)
(*                                                                         *)
(* Numbers.  Python floats are modelled as exact fixed-point reals:        *)
(*   - scores, distances, tolerances: integers in units of 1/Unit (1e-4);  *)
(*   - an embedding distance is carried exactly, as its square (dist2, in  *)
(*     units of 1e-8), so that "distance <= tolerance" and the rounding of *)
(*     the distance are decided without any loss;                          *)
(*   - the combined heuristic similarity is carried in units of 1e-5;      *)
(*   - a reported confidence is an integer number of hundredths of a       *)
(*     percent (6500 is 65.00).                                            *)
(* Binary floating-point error is not modelled.                            *)
(***************************************************************************)
EXTENDS Integers, Sequences, FiniteSets, TLC

VARIABLES
    FACE_RECOGNITION_AVAILABLE, \* module global set by the import at process start
    tolerance,                  \* FaceVerificationService.tolerance
    fallback_service,           \* FaceVerificationService.fallback_service
    calls,                      \* requests served so far by this process
    pc,                         \* position of the request being served
    endpoint,                   \* "/verify" or "/compare-faces"
    camera_image,               \* the file at camera_image_path / image1_path
    id_card_image,              \* the file at id_card_image_path / image2_path
    student_details,            \* caller-supplied metadata of /verify
    camera_quality,             \* validate_image_quality(camera_image_path)
    id_card_quality,            \* validate_image_quality(id_card_image_path)
    encoding1_result,           \* extraction result of the camera image
    encoding2_result,           \* extraction result of the ID card image
    comparison_result,          \* result of compare_faces
    verification_result,        \* result of the service's verify_identity
    response,                   \* what the route answers
    stage_log,                  \* the stages this request has entered, in order
    threads,                    \* locals of the verify_identity call of each request thread
    camera,                     \* CameraService.camera: None or the cv2.VideoCapture handle
    is_camera_active,           \* CameraService.is_camera_active
    capture,                    \* locals of the capture_face_live call in progress
    camera_folder,              \* the images written to CAMERA_FOLDER, in the order written
    camera_result,              \* the call the camera service ended last, and its result
    extracted_text,             \* PDFService.extracted_text
    pdf_threads,                \* locals of the extract_text_from_pdf call of each request thread
    upload_folder,              \* the files of UPLOAD_FOLDER, by path
    now,                        \* datetime.now(), in seconds
    upload                      \* the /upload-id-card request served last

vars == <<FACE_RECOGNITION_AVAILABLE, tolerance, fallback_service, calls, pc,
          endpoint, camera_image, id_card_image, student_details,
          camera_quality, id_card_quality, encoding1_result, encoding2_result,
          comparison_result, verification_result, response, stage_log, threads,
          camera, is_camera_active, capture, camera_folder, camera_result,
          extracted_text, pdf_threads, upload_folder, now, upload>>

\* the state of the camera service and of its folder
camera_vars == <<camera, is_camera_active, capture, camera_folder, camera_result>>

\* the state of the PDF service and of the threads inside it
pdf_vars == <<extracted_text, pdf_threads>>

\* the state of the upload folder and of the upload request
upload_vars == <<upload_folder, now, upload>>

-----------------------------------------------------------------------------
(* Bounds of the model *)

\* requests served by one process
MaxCalls == 2
\* most faces the detector reports in one image
MaxFaces == 2
\* images capture_face_live writes before the model stops starting captures
MaxCaptures == 2

-----------------------------------------------------------------------------
(* Program constants *)

\* 1.0 in 4-decimal fixed point
Unit == 10^4

\* validate_image_quality: minimum width and height
MinResolution == 100
\* validate_image_quality: mean brightness below this is TOO_DARK
MinBrightness == 30
\* validate_image_quality: mean brightness above this is TOO_BRIGHT
MaxBrightness == 225
\* validate_image_quality: Laplacian variance below this is BLURRY_IMAGE
MinSharpness == 100

\* Config.FACE_RECOGNITION_TOLERANCE = 0.6
FACE_RECOGNITION_TOLERANCE == (6 * Unit) \div 10
\* basic_threshold = 0.4
basic_threshold == (4 * Unit) \div 10

\* cv2.calcHist(..., [256], [0, 256]) and the kept prefix [:50]
HistSize == 256
HistBins == 50
\* intensity_diff / 255.0
MaxGray == 255

\* weights of compare_faces_basic, in tenths
WeightHistogram == 4
WeightIntensity == 2
WeightRatio == 2
WeightSize == 2

\* recommendation tiers, in percent
HighConfidence == 80
ModerateConfidence == 60
BasicModerateConfidence == 70
BasicLowConfidence == 50

\* Python's None
None == [is_none |-> TRUE]
IsNone(x) == "is_none" \in DOMAIN x

\* Python's {}
EmptyDict == [k \in {} |-> ""]

-----------------------------------------------------------------------------
(* Arithmetic helpers *)

Max(a, b) == IF a >= b THEN a ELSE b
Min(a, b) == IF a <= b THEN a ELSE b
Abs(a) == IF a >= 0 THEN a ELSE -a

\* floor of the square root (Newton iteration from above)
RECURSIVE SqrtIter(_, _)
SqrtIter(n, x) ==
    LET y == (x + n \div x) \div 2
    IN  IF y >= x THEN x ELSE SqrtIter(n, y)

ISqrt(n) == IF n <= 1 THEN n ELSE SqrtIter(n, n)

\* sqrt(n) rounded to the nearest integer; sqrt(n) is never exactly r + 1/2
RoundSqrt(n) ==
    LET r == ISqrt(n)
    IN  IF n > r * r + r THEN r + 1 ELSE r

\* Python round(): n/d rounded to the nearest integer, ties to the even one (d > 0)
RoundHalfEven(n, d) ==
    LET q == n \div d
        twice == 2 * (n - q * d)
    IN  IF twice < d THEN q
        ELSE IF twice > d THEN q + 1
        ELSE IF q % 2 = 0 THEN q ELSE q + 1

\* the first `digits` decimal digits of num/den, for 0 <= num <= den
RECURSIVE LongDiv(_, _, _, _)
LongDiv(rem, den, digits, acc) ==
    IF digits = 0 THEN acc
    ELSE LongDiv((rem * 10) % den, den, digits - 1, acc * 10 + (rem * 10) \div den)

RECURSIVE SumTo(_, _)
SumTo(f, n) == IF n = 0 THEN 0 ELSE f[n] + SumTo(f, n - 1)

-----------------------------------------------------------------------------
(* Images.  An image file is described by what the libraries report for it: *)
(* cv2.imread / load_image_file (file), image.shape (width, height),       *)
(* np.mean(gray) (brightness), cv2.Laplacian(gray).var() (laplacian), the  *)
(* detector's regions (faces, each <<x, y, w, h>>), the statistics of the  *)
(* first region (face_hist, face_mean, face_std) and one embedding per     *)
(* region (encodings, 2-vectors in units of 1/Unit).                       *)

\* a 256-bin histogram: bins 1..4 are head, bins from..to hold level,
\* the other bins up to HistBins are empty, the bins after HistBins hold rest
Histogram(head, from, to, level, rest) ==
    [k \in 1..HistSize |->
        IF k <= 4 THEN head[k]
        ELSE IF k > HistBins THEN rest
        ELSE IF k >= from /\ k <= to THEN level
        ELSE 0]

Profile(p) ==
    CASE p = 1 -> [rect |-> <<10, 10, 40, 120>>, mean |-> 111, std |-> 40,
                   hist |-> Histogram(<<0, 0, 2, 3>>, 5, 5, 0, 4),
                   enc |-> <<0, 0>>]
      [] p = 2 -> [rect |-> <<12, 8, 34, 120>>, mean |-> 60, std |-> 35,
                   hist |-> Histogram(<<1, 2, 2, 5>>, 5, 5, 0, 4),
                   enc |-> <<3500, 0>>]
      [] p = 3 -> [rect |-> <<20, 20, 30, 120>>, mean |-> 60, std |-> 35,
                   hist |-> Histogram(<<1, 1, 1, 1>>, 5, 10, 1, 2),
                   enc |-> <<7500, 0>>]
      [] p = 4 -> [rect |-> <<50, 40, 30, 30>>, mean |-> 60, std |-> 35,
                   hist |-> Histogram(<<1, 1, 1, 1>>, 5, 10, 1, 2),
                   enc |-> <<9500, 0>>]
      [] p = 5 -> [rect |-> <<50, 40, 30, 30>>, mean |-> 60, std |-> 30,
                   hist |-> Histogram(<<0, 0, 0, 0>>, 5, 14, 1, 2),
                   enc |-> <<19500, 0>>]
      [] p = 6 -> [rect |-> <<50, 40, 30, 30>>, mean |-> 60, std |-> 30,
                   hist |-> Histogram(<<0, 0, 0, 0>>, 7, 16, 1, 2),
                   enc |-> <<3500, 1>>]
      [] OTHER -> [rect |-> <<60, 60, 90, 30>>, mean |-> 213, std |-> 20,
                   hist |-> Histogram(<<0, 0, 0, 0>>, 26, 50, 1, 0),
                   enc |-> <<3000, 4000>>]

ProfileIds == 1..7

\* a decodable image with the given quality statistics showing the faces of
\* profiles first..first+n-1 (the region statistics are those of the first)
Image(width, height, brightness, laplacian, first, n) ==
    [file |-> "image", width |-> width, height |-> height,
     brightness |-> brightness, laplacian |-> laplacian,
     faces |-> [i \in 1..n |-> Profile(first + i - 1).rect],
     encodings |-> [i \in 1..n |-> Profile(first + i - 1).enc],
     face_hist |-> Profile(first).hist,
     face_mean |-> Profile(first).mean,
     face_std |-> Profile(first).std]

\* a path with no file, and a file cv2.imread cannot decode
MissingFile == [Image(0, 0, 0, 0, 1, 0) EXCEPT !.file = "missing"]
CorruptFile == [Image(0, 0, 0, 0, 1, 0) EXCEPT !.file = "corrupt"]

\* well-exposed 640x480 captures: one face each, no face, several faces
SingleFaceImages == {Image(640, 480, 128, 500, p, 1) : p \in ProfileIds}
NoFaceImage == Image(640, 480, 128, 500, 1, 0)
MultiFaceImages == {Image(640, 480, 128, 500, 1, n) : n \in 2..MaxFaces}

\* one-face images around every threshold of the quality gate
QualityImages ==
    {Image(d[1], d[2], b, l, 1, 1) :
        d \in {<<80, 80>>, <<99, 100>>, <<100, 99>>, <<100, 100>>},
        b \in {10, 29, 30, 225, 226, 230},
        l \in {50, 99, 100}}

CoreImages ==
    SingleFaceImages \cup {NoFaceImage} \cup MultiFaceImages
        \cup {MissingFile, CorruptFile}
        \cup {Image(80, 80, 10, 50, 1, 1), Image(100, 100, 225, 100, 1, 1)}

Images == CoreImages \cup QualityImages

\* the image pairs of a request: every image with every core image, in both roles
ImagePairs == (CoreImages \X Images) \cup (Images \X CoreImages)

\* tolerances a service is constructed with
Tolerances == {FACE_RECOGNITION_TOLERANCE, (35 * Unit) \div 100}

\* student_details of a /verify request: JSON null, absent (the default {}), or a mapping
StudentDetails == {None, EmptyDict, [name |-> "Asha", blood_group |-> "O+"]}

Endpoints == {"/verify", "/compare-faces"}

-----------------------------------------------------------------------------
(* Quality gate: validate_image_quality (the same code in both services) *)

\* a failed quality report: the error kind and the message, whose text is kept
\* apart from the numbers formatted into it
QualityFailure(error_code, text, args) ==
    [valid |-> FALSE, error_code |-> error_code,
     message |-> [text |-> text, args |-> args]]

\* validate_image_quality with the brightness checks moved before the resolution check
validate_image_quality_reordered(image) ==
    IF image.file # "image"
    THEN QualityFailure("IMAGE_READ_ERROR", "Could not read image file", <<>>)
    ELSE IF image.brightness < MinBrightness
    THEN QualityFailure("TOO_DARK", "Image is too dark for face recognition", <<>>)
    ELSE IF image.brightness > MaxBrightness
    THEN QualityFailure("TOO_BRIGHT", "Image is too bright for face recognition", <<>>)
    ELSE IF image.width < MinResolution \/ image.height < MinResolution
    THEN QualityFailure("LOW_RESOLUTION", "Image resolution too low", <<image.width, image.height>>)
    ELSE IF image.laplacian < MinSharpness
    THEN QualityFailure("BLURRY_IMAGE", "Image appears to be blurry", <<>>)
    ELSE [valid |-> TRUE,
          details |-> [resolution |-> <<image.width, image.height>>,
                       brightness |-> image.brightness,
                       sharpness |-> image.laplacian]]

\* validate_image_quality with every threshold itself rejected
validate_image_quality_exclusive(image) ==
    IF image.file # "image"
    THEN QualityFailure("IMAGE_READ_ERROR", "Could not read image file", <<>>)
    ELSE IF image.width <= MinResolution \/ image.height <= MinResolution
    THEN QualityFailure("LOW_RESOLUTION", "Image resolution too low", <<image.width, image.height>>)
    ELSE IF image.brightness <= MinBrightness
    THEN QualityFailure("TOO_DARK", "Image is too dark for face recognition", <<>>)
    ELSE IF image.brightness >= MaxBrightness
    THEN QualityFailure("TOO_BRIGHT", "Image is too bright for face recognition", <<>>)
    ELSE IF image.laplacian <= MinSharpness
    THEN QualityFailure("BLURRY_IMAGE", "Image appears to be blurry", <<>>)
    ELSE [valid |-> TRUE,
          details |-> [resolution |-> <<image.width, image.height>>,
                       brightness |-> image.brightness,
                       sharpness |-> image.laplacian]]

validate_image_quality(image) ==
    IF image.file # "image"
    THEN QualityFailure("IMAGE_READ_ERROR", "Could not read image file", <<>>)
    ELSE IF image.width < MinResolution \/ image.height < MinResolution
    THEN QualityFailure("LOW_RESOLUTION", "Image resolution too low", <<image.width, image.height>>)
    ELSE IF image.brightness < MinBrightness
    THEN QualityFailure("TOO_DARK", "Image is too dark for face recognition", <<>>)
    ELSE IF image.brightness > MaxBrightness
    THEN QualityFailure("TOO_BRIGHT", "Image is too bright for face recognition", <<>>)
    ELSE IF image.laplacian < MinSharpness
    THEN QualityFailure("BLURRY_IMAGE", "Image appears to be blurry", <<>>)
    ELSE [valid |-> TRUE,
          details |-> [resolution |-> <<image.width, image.height>>,
                       brightness |-> image.brightness,
                       sharpness |-> image.laplacian]]

-----------------------------------------------------------------------------
(* Face detection *)

\* cv2.CascadeClassifier.detectMultiScale: an ndarray of regions, and the
\* empty tuple () when it finds none
detectMultiScale(image) ==
    IF Len(image.faces) = 0
    THEN [type |-> "tuple", items |-> <<>>]
    ELSE [type |-> "ndarray", items |-> image.faces]

\* detect_faces_opencv: faces.tolist() raises AttributeError on a tuple, which
\* the except clause turns into OPENCV_DETECTION_ERROR
detect_faces_opencv(image) ==
    IF image.file # "image"
    THEN [success |-> FALSE, error_code |-> "IMAGE_READ_ERROR"]
    ELSE LET faces == detectMultiScale(image)
         IN  IF faces.type # "ndarray"
             THEN [success |-> FALSE, error_code |-> "OPENCV_DETECTION_ERROR"]
             ELSE [success |-> TRUE, face_count |-> Len(faces.items),
                   faces |-> faces.items]

\* detect_faces_dlib: load_image_file raises on an undecodable file
detect_faces_dlib(available, image) ==
    IF ~available THEN detect_faces_opencv(image)
    ELSE IF image.file # "image"
    THEN [success |-> FALSE, error_code |-> "DLIB_DETECTION_ERROR"]
    ELSE IF Len(image.faces) = 0
    THEN [success |-> TRUE, face_count |-> 0, faces |-> <<>>, encodings |-> <<>>]
    ELSE [success |-> TRUE, face_count |-> Len(image.faces),
          faces |-> image.faces, encodings |-> image.encodings]

-----------------------------------------------------------------------------
(* Representation extraction *)

\* FaceVerificationServiceFallback.extract_face_features; aspect_ratio w / h
\* is kept as the exact fraction <<w, h>>
extract_face_features(image) ==
    IF image.file = "missing"
    THEN [success |-> FALSE, error_code |-> "FILE_NOT_FOUND"]
    ELSE LET detection_result == detect_faces_opencv(image)
         IN  IF ~detection_result.success THEN detection_result
             ELSE IF detection_result.face_count = 0
             THEN [success |-> FALSE, error_code |-> "NO_FACE_DETECTED"]
             ELSE IF detection_result.face_count > 1
             THEN [success |-> FALSE, error_code |-> "MULTIPLE_FACES_DETECTED"]
             ELSE LET face_coords == detection_result.faces[1]
                      w == face_coords[3]
                      h == face_coords[4]
                  IN  [success |-> TRUE,
                       features |->
                          [histogram |-> SubSeq(image.face_hist, 1, HistBins),
                           mean_intensity |-> image.face_mean,
                           std_intensity |-> image.face_std,
                           face_area |-> w * h,
                           aspect_ratio |-> <<w, h>>,
                           face_coords |-> face_coords],
                       face_location |-> face_coords]

\* extract_face_encoding without the hand-over to the fallback service
extract_face_encoding_without_dispatch(available, image) ==
    IF image.file = "missing"
    THEN [success |-> FALSE, error_code |-> "FILE_NOT_FOUND"]
    ELSE LET detection_result == detect_faces_dlib(TRUE, image)
         IN  IF ~detection_result.success THEN detection_result
             ELSE IF detection_result.face_count = 0
             THEN [success |-> FALSE, error_code |-> "NO_FACE_DETECTED"]
             ELSE IF detection_result.face_count > 1
             THEN [success |-> FALSE, error_code |-> "MULTIPLE_FACES_DETECTED"]
             ELSE [success |-> TRUE,
                   encoding |-> detection_result.encodings[1],
                   face_location |-> detection_result.faces[1]]

\* FaceVerificationService.extract_face_encoding
extract_face_encoding(available, image) ==
    IF ~available THEN extract_face_features(image)
    ELSE IF image.file = "missing"
    THEN [success |-> FALSE, error_code |-> "FILE_NOT_FOUND"]
    ELSE LET detection_result == detect_faces_dlib(available, image)
         IN  IF ~detection_result.success THEN detection_result
             ELSE IF detection_result.face_count = 0
             THEN [success |-> FALSE, error_code |-> "NO_FACE_DETECTED"]
             ELSE IF detection_result.face_count > 1
             THEN [success |-> FALSE, error_code |-> "MULTIPLE_FACES_DETECTED"]
             ELSE [success |-> TRUE,
                   encoding |-> detection_result.encodings[1],
                   face_location |-> detection_result.faces[1]]

-----------------------------------------------------------------------------
(* Comparison, embedding path (compare_faces) *)

\* face_recognition.face_distance: the Euclidean distance, given as its square
face_distance2(encoding1, encoding2) ==
    SumTo([k \in 1..Len(encoding1) |->
              (encoding1[k] - encoding2[k]) * (encoding1[k] - encoding2[k])],
          Len(encoding1))

\* embedding_confidence with abs(...) in the place of max(0, ...)
embedding_confidence_abs(dist2) == Abs(Unit - RoundSqrt(dist2))

\* embedding_confidence without the max(0, ...)
embedding_confidence_unclamped(dist2) == Unit - RoundSqrt(dist2)

\* round(max(0, (1 - face_distance) * 100), 2), in hundredths of a percent
embedding_confidence(dist2) == Max(0, Unit - RoundSqrt(dist2))

\* embedding_is_match with face_distance < self.tolerance
embedding_is_match_strict(dist2, tol) == dist2 < tol * tol

\* face_distance <= self.tolerance (tolerances are not negative)
embedding_is_match(dist2, tol) == dist2 <= tol * tol

\* compare_encodings that tests the ID card image's extraction first
compare_encodings_id_card_first(tol, encoding1_res, encoding2_res) ==
    IF ~encoding2_res.success
    THEN [success |-> FALSE,
          error_code |-> "ID_CARD_IMAGE_" \o encoding2_res.error_code]
    ELSE IF ~encoding1_res.success
    THEN [success |-> FALSE,
          error_code |-> "CAMERA_IMAGE_" \o encoding1_res.error_code]
    ELSE LET dist2 == face_distance2(encoding1_res.encoding, encoding2_res.encoding)
             is_match == embedding_is_match(dist2, tol)
         IN  [success |-> TRUE,
              result |-> IF is_match THEN "Verified" ELSE "Not Verified",
              is_match |-> is_match,
              confidence |-> embedding_confidence(dist2),
              face_distance |-> RoundSqrt(dist2),
              tolerance_used |-> tol,
              method |-> "Advanced face_recognition library",
              details |->
                 [camera_image |-> [face_location |-> encoding1_res.face_location],
                  id_card_image |-> [face_location |-> encoding2_res.face_location]]]

\* compare_faces once both extractions have returned
compare_encodings(tol, encoding1_res, encoding2_res) ==
    IF ~encoding1_res.success
    THEN [success |-> FALSE,
          error_code |-> "CAMERA_IMAGE_" \o encoding1_res.error_code]
    ELSE IF ~encoding2_res.success
    THEN [success |-> FALSE,
          error_code |-> "ID_CARD_IMAGE_" \o encoding2_res.error_code]
    ELSE LET dist2 == face_distance2(encoding1_res.encoding, encoding2_res.encoding)
             is_match == embedding_is_match(dist2, tol)
         IN  [success |-> TRUE,
              result |-> IF is_match THEN "Verified" ELSE "Not Verified",
              is_match |-> is_match,
              confidence |-> embedding_confidence(dist2),
              face_distance |-> RoundSqrt(dist2),
              tolerance_used |-> tol,
              method |-> "Advanced face_recognition library",
              details |->
                 [camera_image |-> [face_location |-> encoding1_res.face_location],
                  id_card_image |-> [face_location |-> encoding2_res.face_location]]]

-----------------------------------------------------------------------------
(* Comparison, heuristic path (compare_faces_basic) *)

\* cv2.compareHist(hist1, hist2, cv2.HISTCMP_CORREL) in units of 1/Unit,
\* truncated towards zero; OpenCV answers 1 when a histogram has no variance
compareHist(hist1, hist2) ==
    LET n == Len(hist1)
        s1 == SumTo(hist1, n)
        s2 == SumTo(hist2, n)
        s11 == SumTo([k \in 1..n |-> hist1[k] * hist1[k]], n)
        s22 == SumTo([k \in 1..n |-> hist2[k] * hist2[k]], n)
        s12 == SumTo([k \in 1..n |-> hist1[k] * hist2[k]], n)
        num == n * s12 - s1 * s2
        denom2 == (n * s11 - s1 * s1) * (n * s22 - s2 * s2)
        magnitude == IF num * num >= denom2 THEN Unit
                     ELSE ISqrt(LongDiv(num * num, denom2, 8, 0))
    IN  IF denom2 = 0 THEN Unit
        ELSE IF num >= 0 THEN magnitude ELSE -magnitude

\* max(0, 1 - abs(mean1 - mean2) / 255.0)
intensity_similarity(mean1, mean2) ==
    Max(0, (Unit * (MaxGray - Abs(mean1 - mean2))) \div MaxGray)

\* ratio_similarity without the max(0, ...)
ratio_similarity_unclamped(ratio1, ratio2) ==
    LET den == ratio1[2] * ratio2[2]
        diff == Abs(ratio1[1] * ratio2[2] - ratio2[1] * ratio1[2])
    IN  -((Unit * (diff - den)) \div den)

\* max(0, 1 - abs(ratio1 - ratio2)), the ratios being w1/h1 and w2/h2
ratio_similarity(ratio1, ratio2) ==
    LET den == ratio1[2] * ratio2[2]
        diff == Abs(ratio1[1] * ratio2[2] - ratio2[1] * ratio1[2])
    IN  Max(0, (Unit * (den - diff)) \div den)

\* size_ratio as the first area over the second, capped at 1
size_ratio_directed(area1, area2) == Min(Unit, (Unit * area1) \div area2)

\* min(area1, area2) / max(area1, area2)
size_ratio(area1, area2) == (Unit * Min(area1, area2)) \div Max(area1, area2)

\* combined_similarity with a histogram weight of 0.3
combined_similarity_light(hist_correlation, intensity, ratio, size) ==
    hist_correlation * (WeightHistogram - 1) + intensity * WeightIntensity
        + ratio * WeightRatio + size * WeightSize

\* combined_similarity with the weights of histogram and intensity exchanged
combined_similarity_swapped(hist_correlation, intensity, ratio, size) ==
    hist_correlation * WeightIntensity + intensity * WeightHistogram
        + ratio * WeightRatio + size * WeightSize

\* the weighted sum, in units of 1e-5 (sub-scores in 1/Unit, weights in tenths)
combined_similarity(hist_correlation, intensity, ratio, size) ==
    hist_correlation * WeightHistogram + intensity * WeightIntensity
        + ratio * WeightRatio + size * WeightSize

\* round(max(0, min(100, combined_similarity * 100)), 2), in hundredths of a percent
basic_confidence(combined) == RoundHalfEven(Max(0, Min(100 * 1000, combined)), 10)

\* combined_similarity >= basic_threshold
basic_is_match(combined) == combined >= 10 * basic_threshold

\* compare_faces_basic once both extractions have returned
compare_features(features1_result, features2_result) ==
    IF ~features1_result.success
    THEN [success |-> FALSE,
          error_code |-> "CAMERA_IMAGE_" \o features1_result.error_code]
    ELSE IF ~features2_result.success
    THEN [success |-> FALSE,
          error_code |-> "ID_CARD_IMAGE_" \o features2_result.error_code]
    ELSE LET features1 == features1_result.features
             features2 == features2_result.features
             hist_correlation == compareHist(features1.histogram, features2.histogram)
             intensity == intensity_similarity(features1.mean_intensity,
                                               features2.mean_intensity)
             ratio == ratio_similarity(features1.aspect_ratio, features2.aspect_ratio)
             size == size_ratio(features1.face_area, features2.face_area)
             combined == combined_similarity(hist_correlation, intensity, ratio, size)
             is_match == basic_is_match(combined)
         IN  [success |-> TRUE,
              result |-> IF is_match THEN "Verified" ELSE "Not Verified",
              is_match |-> is_match,
              confidence |-> basic_confidence(combined),
              similarity_score |-> RoundHalfEven(combined, 10),
              tolerance_used |-> basic_threshold,
              method |-> "Basic OpenCV comparison",
              details |->
                 [camera_image |-> [face_location |-> features1_result.face_location],
                  id_card_image |-> [face_location |-> features2_result.face_location],
                  similarity_breakdown |->
                     [histogram_correlation |-> hist_correlation,
                      intensity_similarity |-> intensity,
                      ratio_similarity |-> ratio,
                      size_similarity |-> size]],
              warning |-> "basic comparison method"]

\* compare_results that reports a failed ID card extraction before all else
compare_results_id_card_first(available, tol, result1, result2) ==
    IF ~result2.success
    THEN [success |-> FALSE,
          error_code |-> "ID_CARD_IMAGE_" \o result2.error_code]
    ELSE IF ~available THEN compare_features(result1, result2)
    ELSE compare_encodings(tol, result1, result2)

\* compare_results whose heuristic result reports the configured tolerance
compare_results_reporting_configured(available, tol, result1, result2) ==
    IF ~available
    THEN LET basic == compare_features(result1, result2)
         IN  IF basic.success THEN [basic EXCEPT !.tolerance_used = tol] ELSE basic
    ELSE compare_encodings(tol, result1, result2)

\* FaceVerificationService.compare_faces after the two extractions
compare_results(available, tol, result1, result2) ==
    IF ~available THEN compare_features(result1, result2)
    ELSE compare_encodings(tol, result1, result2)

\* FaceVerificationService.compare_faces(image1_path, image2_path)
compare_faces(available, tol, image1, image2) ==
    compare_results(available, tol,
                    extract_face_encoding(available, image1),
                    extract_face_encoding(available, image2))

-----------------------------------------------------------------------------
(* Verification record (verify_identity of the two services) *)

\* OrEmptyDict that forgets the mapping
OrEmptyDict_forgetful(details) == EmptyDict

\* student_details or {}
OrEmptyDict(details) ==
    IF IsNone(details) \/ DOMAIN details = {} THEN EmptyDict ELSE details

\* recommendation with the boundaries given to the lower tier
recommendation_exclusive(confidence) ==
    IF confidence > HighConfidence * 100 THEN "High confidence match"
    ELSE IF confidence > ModerateConfidence * 100 THEN "Moderate confidence match"
    ELSE "Low confidence - manual review recommended"

\* embedding path tiers; confidence in hundredths of a percent
recommendation(confidence) ==
    IF confidence >= HighConfidence * 100 THEN "High confidence match"
    ELSE IF confidence >= ModerateConfidence * 100 THEN "Moderate confidence match"
    ELSE "Low confidence - manual review recommended"

\* basic_recommendation with the boundaries given to the lower tier
basic_recommendation_exclusive(confidence) ==
    IF confidence > BasicModerateConfidence * 100
    THEN "Moderate confidence match (basic method)"
    ELSE IF confidence > BasicLowConfidence * 100
    THEN "Low confidence match (basic method)"
    ELSE "Very low confidence - manual review required"

\* heuristic path tiers; confidence in hundredths of a percent
basic_recommendation(confidence) ==
    IF confidence >= BasicModerateConfidence * 100
    THEN "Moderate confidence match (basic method)"
    ELSE IF confidence >= BasicLowConfidence * 100
    THEN "Low confidence match (basic method)"
    ELSE "Very low confidence - manual review required"

\* failed_verification that goes on to the recommendation
failed_verification_with_recommendation(comparison_res, details) ==
    [success |-> FALSE,
     result |-> "Verification Failed",
     confidence |-> 0,
     error_code |-> comparison_res.error_code,
     student_details |-> OrEmptyDict(details),
     recommendation |-> "Low confidence - manual review recommended"]

\* failed_verification that names its own error kind instead of the comparison's
failed_verification_generic(comparison_res, details) ==
    [success |-> FALSE,
     result |-> "Verification Failed",
     confidence |-> 0,
     error_code |-> "VERIFICATION_FAILED",
     student_details |-> OrEmptyDict(details)]

\* what both verify_identity methods return for a failed comparison
failed_verification(comparison_res, details) ==
    [success |-> FALSE,
     result |-> "Verification Failed",
     confidence |-> 0,
     error_code |-> comparison_res.error_code,
     student_details |-> OrEmptyDict(details)]

\* basic_verification whose record leaves the breakdown out
basic_verification_without_breakdown(comparison_res, details) ==
    IF ~comparison_res.success THEN failed_verification(comparison_res, details)
    ELSE [success |-> TRUE,
          result |-> comparison_res.result,
          is_match |-> comparison_res.is_match,
          confidence |-> comparison_res.confidence,
          similarity_score |-> comparison_res.similarity_score,
          method |-> comparison_res.method,
          warning |-> comparison_res.warning,
          student_details |-> OrEmptyDict(details),
          verification_details |->
             [tolerance_used |-> comparison_res.tolerance_used],
          recommendation |-> basic_recommendation(comparison_res.confidence)]

\* FaceVerificationServiceFallback.verify_identity after compare_faces_basic
basic_verification(comparison_res, details) ==
    IF ~comparison_res.success THEN failed_verification(comparison_res, details)
    ELSE [success |-> TRUE,
          result |-> comparison_res.result,
          is_match |-> comparison_res.is_match,
          confidence |-> comparison_res.confidence,
          similarity_score |-> comparison_res.similarity_score,
          method |-> comparison_res.method,
          warning |-> comparison_res.warning,
          student_details |-> OrEmptyDict(details),
          verification_details |->
             [tolerance_used |-> comparison_res.tolerance_used,
              similarity_breakdown |-> comparison_res.details.similarity_breakdown],
          recommendation |-> basic_recommendation(comparison_res.confidence)]

\* FaceVerificationService.verify_identity after compare_faces
verification(available, comparison_res, details) ==
    IF ~available THEN basic_verification(comparison_res, details)
    ELSE IF ~comparison_res.success THEN failed_verification(comparison_res, details)
    ELSE [success |-> TRUE,
          result |-> comparison_res.result,
          is_match |-> comparison_res.is_match,
          confidence |-> comparison_res.confidence,
          face_distance |-> comparison_res.face_distance,
          method |-> comparison_res.method,
          student_details |-> OrEmptyDict(details),
          verification_details |-> [tolerance_used |-> comparison_res.tolerance_used],
          recommendation |-> recommendation(comparison_res.confidence)]

\* FaceVerificationService.verify_identity(camera_image_path, id_card_image_path, ...)
verify_identity(available, tol, image1, image2, details) ==
    verification(available, compare_faces(available, tol, image1, image2), details)

-----------------------------------------------------------------------------
(* Routes *)

\* dict.get(key, "")
Get(dict, key) == IF key \in DOMAIN dict THEN dict[key] ELSE ""

\* the os.path.exists checks of /verify and /compare-faces
missing_file_response(route, image1, image2) ==
    IF image1.file = "missing"
    THEN [code |-> 400, status |-> "error",
          error_code |-> IF route = "/verify" THEN "CAMERA_IMAGE_NOT_FOUND"
                         ELSE "IMAGE1_NOT_FOUND"]
    ELSE IF image2.file = "missing"
    THEN [code |-> 400, status |-> "error",
          error_code |-> IF route = "/verify" THEN "ID_CARD_IMAGE_NOT_FOUND"
                         ELSE "IMAGE2_NOT_FOUND"]
    ELSE None

\* quality_issues that looks at the camera image only
quality_issues_camera_only(camera_q, id_card_q) ==
    IF ~camera_q.valid THEN <<[image |-> "Camera image", issue |-> camera_q.message]>>
    ELSE <<>>

\* quality_issues of /verify: one entry "<image>: <message>" per image that
\* failed, camera first
quality_issues(camera_q, id_card_q) ==
    (IF ~camera_q.valid THEN <<[image |-> "Camera image", issue |-> camera_q.message]>>
     ELSE <<>>)
    \o (IF ~id_card_q.valid
        THEN <<[image |-> "ID card image", issue |-> id_card_q.message]>>
        ELSE <<>>)

poor_quality_response(camera_q, id_card_q) ==
    [code |-> 400, status |-> "error", error_code |-> "POOR_IMAGE_QUALITY",
     quality_issues |-> quality_issues(camera_q, id_card_q)]

\* the answer of /verify to the service's result; a missing key or a .get on
\* None raises, and the except clause answers 500
verify_response(verification_res, details, camera_q, id_card_q) ==
    IF verification_res.success
    THEN IF IsNone(details) \/ "face_distance" \notin DOMAIN verification_res
         THEN [code |-> 500, status |-> "error", error_code |-> "VERIFICATION_EXCEPTION"]
         ELSE [code |-> 200, status |-> "success",
               data |->
                  [result |-> verification_res.result,
                   confidence |-> verification_res.confidence,
                   student_details |->
                      [name |-> Get(details, "name"),
                       register_number |-> Get(details, "register_number"),
                       department |-> Get(details, "department"),
                       college |-> Get(details, "college"),
                       year |-> Get(details, "year"),
                       course |-> Get(details, "course")],
                   verification_details |->
                      [is_match |-> verification_res.is_match,
                       face_distance |-> verification_res.face_distance,
                       tolerance_used |->
                          verification_res.verification_details.tolerance_used,
                       recommendation |-> verification_res.recommendation],
                   image_info |->
                      [camera_quality |-> camera_q.details,
                       id_card_quality |-> id_card_q.details]]]
    ELSE [code |-> 400, status |-> "error",
          error_code |-> verification_res.error_code,
          data |-> [result |-> "Verification Failed", confidence |-> 0,
                    student_details |-> details]]

\* the answer of /compare-faces to the service's result
compare_response(comparison_res) ==
    IF comparison_res.success
    THEN IF "face_distance" \notin DOMAIN comparison_res
         THEN [code |-> 500, status |-> "error", error_code |-> "COMPARISON_EXCEPTION"]
         ELSE [code |-> 200, status |-> "success",
               data |-> [result |-> comparison_res.result,
                         is_match |-> comparison_res.is_match,
                         confidence |-> comparison_res.confidence,
                         face_distance |-> comparison_res.face_distance,
                         tolerance_used |-> comparison_res.tolerance_used,
                         details |-> comparison_res.details]]
    ELSE [code |-> 400, status |-> "error", error_code |-> comparison_res.error_code]

-----------------------------------------------------------------------------
(* The stages a request enters *)

StageEntry(stage, image) == [stage |-> stage, image |-> image]

\* stages entered by one extract_face_encoding / extract_face_features call:
\* detection once the file exists, and the computation of a representation
\* (face_encodings for every located face in detect_faces_dlib; the region
\* statistics in extract_face_features, only for a single region)
extraction_stages(available, which, image) ==
    IF image.file = "missing" THEN <<>>
    ELSE <<StageEntry("FACE_DETECTION", which)>>
         \o (IF image.file = "image"
                /\ (IF available THEN Len(image.faces) >= 1 ELSE Len(image.faces) = 1)
             THEN <<StageEntry("REPRESENTATION_EXTRACTION", which)>>
             ELSE <<>>)

-----------------------------------------------------------------------------
(* Request threads (app.run(threaded=True)): each serves its requests with  *)
(* its own locals on the one service instance of the process                *)

Threads == {"thread1", "thread2"}

\* the locals of a thread that is not inside verify_identity, after n calls
IdleThread(n) ==
    [pc |-> "idle", n |-> n, camera_image |-> None, id_card_image |-> None,
     student_details |-> None, encoding1_result |-> None,
     encoding2_result |-> None, comparison_result |-> None,
     verification_result |-> None]

\* images and metadata of the calls that threads make side by side
ThreadImages ==
    {Image(640, 480, 128, 500, 1, 1), Image(640, 480, 128, 500, 2, 1),
     Image(640, 480, 128, 500, 1, 0)}
ThreadDetails == {None, [name |-> "Asha", blood_group |-> "O+"]}

-----------------------------------------------------------------------------
(* Camera service (app/services/camera_service.py) *)

\* what cv2.VideoCapture(CAMERA_INDEX) may find: no camera (or a busy one), a
\* camera that opens and delivers no frame, a camera that works
Devices ==
    {[isOpened |-> FALSE, read |-> FALSE], [isOpened |-> TRUE, read |-> FALSE],
     [isOpened |-> TRUE, read |-> TRUE]}

\* cv2.VideoCapture on the device: a handle that knows whether it is opened
\* and whether it has delivered the frame of initialize_camera's test
VideoCapture(device) == [isOpened |-> device.isOpened, delivered |-> FALSE]

\* CameraService.initialize_camera(): the attributes after the call and the
\* result returned
initialize_camera(handle, active, device) ==
    IF ~VideoCapture(device).isOpened
    THEN [camera |-> VideoCapture(device), is_camera_active |-> active,
          result |-> [success |-> FALSE, error_code |-> "CAMERA_NOT_FOUND"]]
    ELSE IF ~device.read
    THEN [camera |-> VideoCapture(device), is_camera_active |-> active,
          result |-> [success |-> FALSE, error_code |-> "CAMERA_READ_ERROR"]]
    ELSE [camera |-> [VideoCapture(device) EXCEPT !.delivered = TRUE],
          is_camera_active |-> TRUE,
          result |-> [success |-> TRUE]]

\* the keys cv2.waitKey may report in an iteration of the capture loop
Keys == {"c", "C", "q", "Q", "none"}

\* capture_refused that lets a frame with several faces through
capture_refused_only_empty(face_count) == face_count = 0

\* 'C' was pressed: the frames capture_face_live does not save
capture_refused(face_count) == face_count = 0 \/ face_count > 1

\* no capture_face_live call is in progress
IdleCapture == [pc |-> "idle"]

\* the locals of capture_face_live on entering the loop
EnteredCapture ==
    [pc |-> "loop", captured_image_path |-> None, face_detected |-> FALSE]

\* the name of the n-th image written to CAMERA_FOLDER
CapturedPath(n) == [folder |-> "camera", captured_face |-> n]

-----------------------------------------------------------------------------
(* PDF service (app/services/pdf_service.py).  A text is the sequence of its
   lines; a line is "<label>: <value>", or blank when both are empty.  The
   texts of the model carry their fields in the order name, register number,
   department, for which the patterns of parse_student_details read a field
   up to the next label, as the line does. *)

Line(label, value) == [label |-> label, value |-> value]
BlankLine == Line("", "")

\* a PDF file: its extension, whether pdfplumber can open it, and the text
\* page.extract_text() gives for each page (no line: no text)
Pdf(ext, readable, pages) == [ext |-> ext, readable |-> readable, pages |-> pages]

CardAsha ==
    Pdf("pdf", TRUE,
        <<<<Line("Name", "Asha"), Line("Register No", "21CS001"),
            Line("Department", "CSE")>>>>)
CardRavi ==
    Pdf("pdf", TRUE,
        <<<<BlankLine, Line("Name", "Ravi Kumar")>>,
          <<Line("Register No", "22EE042"), BlankLine>>>>)
ScannedCard == Pdf("pdf", TRUE, <<<<>>>>)
EmptyPdf == Pdf("pdf", TRUE, <<>>)
CorruptPdf == Pdf("pdf", FALSE, <<>>)

\* the PDF files requests come with
Pdfs == {CardAsha, CardRavi, ScannedCard, EmptyPdf, CorruptPdf}

\* for page in pdf.pages: if page_text: extracted_text += page_text + "\n"
RECURSIVE JoinPages(_)
JoinPages(pages) ==
    IF pages = <<>> THEN <<>> ELSE Head(pages) \o JoinPages(Tail(pages))

\* str.lstrip and str.rstrip on the lines of a text
RECURSIVE lstrip(_)
lstrip(text) ==
    IF text # <<>> /\ Head(text) = BlankLine THEN lstrip(Tail(text)) ELSE text
RECURSIVE rstrip(_)
rstrip(text) ==
    IF text # <<>> /\ text[Len(text)] = BlankLine
    THEN rstrip(SubSeq(text, 1, Len(text) - 1)) ELSE text
strip(text) == rstrip(lstrip(text))

\* len(line) and len(text): the characters of the lines and the newlines between
LineLength(line) ==
    IF line = BlankLine THEN 0 ELSE Len(line.label) + 2 + Len(line.value)
RECURSIVE len(_)
len(text) ==
    IF text = <<>> THEN 0
    ELSE LineLength(Head(text)) + (IF Len(text) > 1 THEN 1 ELSE 0) + len(Tail(text))

\* the first value longer than one character that a pattern of the field finds
FieldValue(text, labels) ==
    LET found == {i \in DOMAIN text : text[i].label \in labels /\ Len(text[i].value) > 1}
    IN  IF found = {} THEN ""
        ELSE text[CHOOSE i \in found : \A j \in found : i <= j].value

\* PDFService.parse_student_details(text)
parse_student_details(text) ==
    [name |-> FieldValue(text, {"Name", "Student Name"}),
     register_number |-> FieldValue(text, {"Register No", "Register Number",
                                           "Registration No", "Reg No"}),
     roll_number |-> FieldValue(text, {"Roll No", "Roll Number", "Roll"}),
     department |-> FieldValue(text, {"Department", "Dept", "Branch"}),
     college |-> FieldValue(text, {"College", "Institution"}),
     year |-> FieldValue(text, {"Year", "Semester"}),
     course |-> FieldValue(text, {"Course", "Program", "Degree"})]

\* PDFService.validate_pdf(file_path) of a file that exists
validate_pdf(file) ==
    IF file.ext # "pdf" THEN [valid |-> FALSE, error_code |-> "INVALID_FORMAT"]
    ELSE IF ~file.readable THEN [valid |-> FALSE, error_code |-> "CORRUPTED_PDF"]
    ELSE IF Len(file.pages) = 0 THEN [valid |-> FALSE, error_code |-> "EMPTY_PDF"]
    ELSE [valid |-> TRUE, page_count |-> Len(file.pages)]

\* what extract_text_from_pdf returns when the validation fails
invalid_pdf(validation) == [success |-> FALSE, error_code |-> validation.error_code]

no_text_found == [success |-> FALSE, error_code |-> "NO_TEXT_FOUND"]

\* the success result of extract_text_from_pdf from what it has read
text_result(text, details, text_length) ==
    [success |-> TRUE, text |-> text, student_details |-> details,
     text_length |-> text_length]

\* PDFService.extract_text_from_pdf(file_path) run without interruption on a
\* file that exists: the new self.extracted_text and the result
extract_text_from_pdf(file, attribute) ==
    IF ~validate_pdf(file).valid
    THEN [extracted_text |-> attribute, result |-> invalid_pdf(validate_pdf(file))]
    ELSE LET text == strip(JoinPages(file.pages))
         IN  [extracted_text |-> text,
              result |-> IF text = <<>> THEN no_text_found
                         ELSE text_result(text, parse_student_details(text), len(text))]

\* the locals of a thread that is not inside extract_text_from_pdf, after n calls
IdlePdfThread(n) == [pc |-> "idle", n |-> n]

\* UPLOAD_FOLDER with no file in it
EmptyFolder == [path \in {} |-> None]

\* PDFService.process_id_card(file_path, output_dir) on a file that exists: the
\* new self.extracted_text and the result; success is that of the text
process_id_card(file, attribute) ==
    LET extraction == extract_text_from_pdf(file, attribute)
    IN  [extracted_text |-> extraction.extracted_text,
         result |->
            IF extraction.result.success
            THEN [success |-> TRUE,
                  text |-> [success |-> TRUE,
                            extracted_text |-> extraction.result.text,
                            student_details |-> extraction.result.student_details]]
            ELSE [success |-> FALSE, error_code |-> "TEXT_EXTRACTION_FAILED",
                  text |-> [success |-> FALSE, extracted_text |-> <<>>,
                            student_details |-> EmptyDict]]]

-----------------------------------------------------------------------------
(* /upload-id-card (app/routes/verification_routes.py).  A file name is the
   sequence of its parts between dots: "card.pdf" is <<"card", "pdf">>, ""
   is <<"">>, ".pdf" is <<"", "pdf">>. *)

\* str.lower on the extensions of the model
lower(part) == IF part \in {"PDF", "Pdf"} THEN "pdf" ELSE part

\* Config.ALLOWED_EXTENSIONS
ALLOWED_EXTENSIONS == {"pdf"}

\* Config.allowed_file(filename)
allowed_file(filename) ==
    Len(filename) >= 2 /\ lower(filename[Len(filename)]) \in ALLOWED_EXTENSIONS

\* the parts werkzeug's secure_filename leaves nothing of
UnsafeParts == {"", "#!"}

\* secure_filename(filename): unsafe characters go, then the dots at both ends
RECURSIVE StripLeft(_)
StripLeft(filename) ==
    IF filename # <<>> /\ Head(filename) \in UnsafeParts
    THEN StripLeft(Tail(filename)) ELSE filename
RECURSIVE StripRight(_)
StripRight(filename) ==
    IF filename # <<>> /\ filename[Len(filename)] \in UnsafeParts
    THEN StripRight(SubSeq(filename, 1, Len(filename) - 1)) ELSE filename
secure_filename(filename) == StripRight(StripLeft(filename))

\* os.path.join(UPLOAD_FOLDER, f"{timestamp}_{filename}")
UploadPath(timestamp, filename) == [timestamp |-> timestamp, filename |-> filename]

\* os.path.splitext(file_path)[1].lower(), without its dot
PathExt(path) ==
    IF Len(path.filename) >= 2 THEN lower(path.filename[Len(path.filename)]) ELSE ""

\* file.save(file_path): the folder with the content at the path
save(folder, path, content) ==
    [p \in DOMAIN folder \cup {path} |-> IF p = path THEN content ELSE folder[p]]

\* remove that leaves the file where it is
remove_nothing(folder, path) == folder

\* if os.path.exists(file_path): os.remove(file_path)
remove(folder, path) == [p \in DOMAIN folder \ {path} |-> folder[p]]

\* the file pdfplumber finds at a path of the folder
FileAt(folder, path) ==
    Pdf(PathExt(path), folder[path].readable, folder[path].pages)

\* the file names uploads come with
Filenames ==
    {<<"">>, <<"card", "pdf">>, <<"card", "PDF">>, <<"card", "txt">>, <<"card">>,
     <<"", "pdf">>, <<"#!", "pdf">>, <<"card", "pdf", "exe">>}

\* request.files of an upload: no 'file' part, or a file name and a content
Uploads ==
    {None} \cup {[filename |-> f, content |-> c] : f \in Filenames, c \in Pdfs}

\* the answers of /upload-id-card before anything is written
rejected_upload(file) ==
    IF IsNone(file) THEN [code |-> 400, error_code |-> "NO_FILE"]
    ELSE IF file.filename = <<"">> THEN [code |-> 400, error_code |-> "NO_FILE_SELECTED"]
    ELSE IF ~allowed_file(file.filename)
    THEN [code |-> 400, error_code |-> "INVALID_FORMAT"]
    ELSE None

-----------------------------------------------------------------------------
(* The process: module import and service construction, then requests *)

Init ==
    /\ FACE_RECOGNITION_AVAILABLE \in BOOLEAN
    /\ tolerance \in Tolerances
    /\ fallback_service =
          IF ~FACE_RECOGNITION_AVAILABLE THEN [tolerance |-> tolerance] ELSE None
    /\ calls = 0
    /\ pc = "idle"
    /\ endpoint = None
    /\ camera_image = None
    /\ id_card_image = None
    /\ student_details = None
    /\ camera_quality = None
    /\ id_card_quality = None
    /\ encoding1_result = None
    /\ encoding2_result = None
    /\ comparison_result = None
    /\ verification_result = None
    /\ response = None
    /\ stage_log = <<>>
    /\ threads = [t \in Threads |-> IdleThread(0)]
    /\ camera = None
    /\ is_camera_active = FALSE
    /\ capture = IdleCapture
    /\ camera_folder = <<>>
    /\ camera_result = None
    /\ extracted_text = <<>>
    /\ pdf_threads = [t \in Threads |-> IdlePdfThread(0)]
    /\ upload_folder = EmptyFolder
    /\ now = 0
    /\ upload = [n |-> 0]

\* a request arrives; the route checks that both files exist
Request ==
    /\ pc = "idle"
    /\ calls < MaxCalls
    /\ \E route \in Endpoints, pair \in ImagePairs :
         \E details \in (IF route = "/verify" THEN StudentDetails ELSE {None}) :
            LET missing == missing_file_response(route, pair[1], pair[2])
            IN  /\ endpoint' = [route |-> route]
                /\ camera_image' = pair[1]
                /\ id_card_image' = pair[2]
                /\ student_details' = details
                /\ response' = missing
                /\ pc' = IF ~IsNone(missing) THEN "done"
                         ELSE IF route = "/verify" THEN "quality"
                         ELSE "extract_camera"
    /\ calls' = calls + 1
    /\ UNCHANGED <<camera_vars, pdf_vars, upload_vars, threads, FACE_RECOGNITION_AVAILABLE, tolerance, fallback_service,
                   camera_quality, id_card_quality, encoding1_result,
                   encoding2_result, comparison_result, verification_result,
                   stage_log>>

\* ValidateQuality without the refusal: the request goes on whatever the reports
ValidateQualityNoAbort ==
    /\ pc = "quality"
    /\ camera_quality' = validate_image_quality(camera_image)
    /\ id_card_quality' = validate_image_quality(id_card_image)
    /\ stage_log' = stage_log \o <<StageEntry("QUALITY_CHECK", "camera"),
                                   StageEntry("QUALITY_CHECK", "id_card")>>
    /\ pc' = "extract_camera"
    /\ UNCHANGED <<camera_vars, pdf_vars, upload_vars, threads, FACE_RECOGNITION_AVAILABLE, tolerance, fallback_service, calls,
                   endpoint, camera_image, id_card_image, student_details,
                   encoding1_result, encoding2_result, comparison_result,
                   verification_result, response>>

\* /verify: both images pass the quality gate, or the request is refused
ValidateQuality ==
    /\ pc = "quality"
    /\ LET camera_q == validate_image_quality(camera_image)
           id_card_q == validate_image_quality(id_card_image)
           issues == quality_issues(camera_q, id_card_q)
       IN  /\ camera_quality' = camera_q
           /\ id_card_quality' = id_card_q
           /\ stage_log' = stage_log \o <<StageEntry("QUALITY_CHECK", "camera"),
                                          StageEntry("QUALITY_CHECK", "id_card")>>
           /\ IF Len(issues) > 0
              THEN /\ response' = poor_quality_response(camera_q, id_card_q)
                   /\ pc' = "done"
              ELSE /\ response' = response
                   /\ pc' = "extract_camera"
    /\ UNCHANGED <<camera_vars, pdf_vars, upload_vars, threads, FACE_RECOGNITION_AVAILABLE, tolerance, fallback_service, calls,
                   endpoint, camera_image, id_card_image, student_details,
                   encoding1_result, encoding2_result, comparison_result,
                   verification_result>>

\* compare_faces: extraction from the camera image
ExtractCamera ==
    /\ pc = "extract_camera"
    /\ encoding1_result' = extract_face_encoding(FACE_RECOGNITION_AVAILABLE, camera_image)
    /\ stage_log' = stage_log
          \o extraction_stages(FACE_RECOGNITION_AVAILABLE, "camera", camera_image)
    /\ pc' = "extract_id_card"
    /\ UNCHANGED <<camera_vars, pdf_vars, upload_vars, threads, FACE_RECOGNITION_AVAILABLE, tolerance, fallback_service, calls,
                   endpoint, camera_image, id_card_image, student_details,
                   camera_quality, id_card_quality, encoding2_result,
                   comparison_result, verification_result, response>>

\* compare_faces: extraction from the ID card image, whatever the first returned
ExtractIdCard ==
    /\ pc = "extract_id_card"
    /\ encoding2_result' = extract_face_encoding(FACE_RECOGNITION_AVAILABLE, id_card_image)
    /\ stage_log' = stage_log
          \o extraction_stages(FACE_RECOGNITION_AVAILABLE, "id_card", id_card_image)
    /\ pc' = "compare"
    /\ UNCHANGED <<camera_vars, pdf_vars, upload_vars, threads, FACE_RECOGNITION_AVAILABLE, tolerance, fallback_service, calls,
                   endpoint, camera_image, id_card_image, student_details,
                   camera_quality, id_card_quality, encoding1_result,
                   comparison_result, verification_result, response>>

\* what the except clause of compare_faces and compare_faces_basic returns
comparison_error == [success |-> FALSE, error_code |-> "COMPARISON_ERROR"]

\* compare_faces: the success checks and the scoring; the scoring of two
\* extracted representations returns, or raises into the except clause
Compare ==
    /\ pc = "compare"
    /\ \E raised \in (IF encoding1_result.success /\ encoding2_result.success
                      THEN BOOLEAN ELSE {FALSE}) :
          comparison_result' =
             IF raised THEN comparison_error
             ELSE compare_results(FACE_RECOGNITION_AVAILABLE, tolerance,
                                  encoding1_result, encoding2_result)
    /\ stage_log' = IF encoding1_result.success /\ encoding2_result.success
                    THEN Append(stage_log, StageEntry("COMPARISON", "both"))
                    ELSE stage_log
    /\ pc' = IF endpoint.route = "/verify" THEN "verify" ELSE "respond"
    /\ UNCHANGED <<camera_vars, pdf_vars, upload_vars, threads, FACE_RECOGNITION_AVAILABLE, tolerance, fallback_service, calls,
                   endpoint, camera_image, id_card_image, student_details,
                   camera_quality, id_card_quality, encoding1_result,
                   encoding2_result, verification_result, response>>

\* verify_identity: the verification record
Verify ==
    /\ pc = "verify"
    /\ verification_result' = verification(FACE_RECOGNITION_AVAILABLE,
                                           comparison_result, student_details)
    /\ stage_log' = IF comparison_result.success
                    THEN Append(stage_log, StageEntry("RESULT", "both"))
                    ELSE stage_log
    /\ pc' = "respond"
    /\ UNCHANGED <<camera_vars, pdf_vars, upload_vars, threads, FACE_RECOGNITION_AVAILABLE, tolerance, fallback_service, calls,
                   endpoint, camera_image, id_card_image, student_details,
                   camera_quality, id_card_quality, encoding1_result,
                   encoding2_result, comparison_result, response>>

\* the route turns the service's result into its JSON answer
Respond ==
    /\ pc = "respond"
    /\ response' = IF endpoint.route = "/verify"
                   THEN verify_response(verification_result, student_details,
                                        camera_quality, id_card_quality)
                   ELSE compare_response(comparison_result)
    /\ pc' = "done"
    /\ UNCHANGED <<camera_vars, pdf_vars, upload_vars, threads, FACE_RECOGNITION_AVAILABLE, tolerance, fallback_service, calls,
                   endpoint, camera_image, id_card_image, student_details,
                   camera_quality, id_card_quality, encoding1_result,
                   encoding2_result, comparison_result, verification_result,
                   stage_log>>

\* the request is over: nothing of it is kept
Return ==
    /\ pc = "done"
    /\ pc' = "idle"
    /\ endpoint' = None
    /\ camera_image' = None
    /\ id_card_image' = None
    /\ student_details' = None
    /\ camera_quality' = None
    /\ id_card_quality' = None
    /\ encoding1_result' = None
    /\ encoding2_result' = None
    /\ comparison_result' = None
    /\ verification_result' = None
    /\ response' = None
    /\ stage_log' = <<>>
    /\ UNCHANGED <<camera_vars, pdf_vars, upload_vars, threads, FACE_RECOGNITION_AVAILABLE, tolerance, fallback_service, calls>>

Next ==
    \/ Request
    \/ ValidateQuality
    \/ ExtractCamera
    \/ ExtractIdCard
    \/ Compare
    \/ Verify
    \/ Respond
    \/ Return

Spec == Init /\ [][Next]_vars

-----------------------------------------------------------------------------
(* Concurrent calls of verify_identity on the shared service instance *)

\* everything but the threads' locals and the service's attributes
request_vars ==
    <<calls, pc, endpoint, camera_image, id_card_image, student_details,
      camera_quality, id_card_quality, encoding1_result, encoding2_result,
      comparison_result, verification_result, response, stage_log>>

\* the attributes of the service instance and the module global
service_vars == <<FACE_RECOGNITION_AVAILABLE, tolerance, fallback_service>>

\* thread t calls verify_identity with two image paths and the metadata
ThreadCall(t) ==
    /\ threads[t].pc = "idle"
    /\ threads[t].n < MaxCalls
    /\ \E image1 \in ThreadImages, image2 \in ThreadImages, details \in ThreadDetails :
          threads' = [threads EXCEPT ![t] =
                         [@ EXCEPT !.pc = "extract_camera", !.n = @ + 1,
                                   !.camera_image = image1,
                                   !.id_card_image = image2,
                                   !.student_details = details]]
    /\ UNCHANGED <<service_vars, request_vars, camera_vars, pdf_vars, upload_vars>>

\* ThreadExtractCamera on a service that keeps the last extraction of a camera
\* image in an attribute and returns it while another call is using it
ThreadExtractCamera_cached(t) ==
    /\ threads[t].pc = "extract_camera"
    /\ LET others == {u \in Threads \ {t} : ~IsNone(threads[u].encoding1_result)}
       IN  threads' = [threads EXCEPT ![t] =
                          [@ EXCEPT !.pc = "extract_id_card",
                                    !.encoding1_result =
                                       IF others # {}
                                       THEN threads[CHOOSE u \in others : TRUE].encoding1_result
                                       ELSE extract_face_encoding(
                                               FACE_RECOGNITION_AVAILABLE,
                                               threads[t].camera_image)]]
    /\ UNCHANGED <<service_vars, request_vars, camera_vars, pdf_vars, upload_vars>>

\* compare_faces in thread t: extraction from the camera image
ThreadExtractCamera(t) ==
    /\ threads[t].pc = "extract_camera"
    /\ threads' = [threads EXCEPT ![t] =
                      [@ EXCEPT !.pc = "extract_id_card",
                                !.encoding1_result =
                                   extract_face_encoding(FACE_RECOGNITION_AVAILABLE,
                                                         threads[t].camera_image)]]
    /\ UNCHANGED <<service_vars, request_vars, camera_vars, pdf_vars, upload_vars>>

\* compare_faces in thread t: extraction from the ID card image
ThreadExtractIdCard(t) ==
    /\ threads[t].pc = "extract_id_card"
    /\ threads' = [threads EXCEPT ![t] =
                      [@ EXCEPT !.pc = "compare",
                                !.encoding2_result =
                                   extract_face_encoding(FACE_RECOGNITION_AVAILABLE,
                                                         threads[t].id_card_image)]]
    /\ UNCHANGED <<service_vars, request_vars, camera_vars, pdf_vars, upload_vars>>

\* compare_faces in thread t: the success checks and the scoring, which
\* returns or raises into the except clause
ThreadCompare(t) ==
    /\ threads[t].pc = "compare"
    /\ \E raised \in (IF threads[t].encoding1_result.success
                         /\ threads[t].encoding2_result.success
                      THEN BOOLEAN ELSE {FALSE}) :
          threads' = [threads EXCEPT ![t] =
                         [@ EXCEPT !.pc = "verify",
                                   !.comparison_result =
                                      IF raised THEN comparison_error
                                      ELSE compare_results(
                                              FACE_RECOGNITION_AVAILABLE, tolerance,
                                              threads[t].encoding1_result,
                                              threads[t].encoding2_result)]]
    /\ UNCHANGED <<service_vars, request_vars, camera_vars, pdf_vars, upload_vars>>

\* verify_identity in thread t: the verification record is returned
ThreadVerify(t) ==
    /\ threads[t].pc = "verify"
    /\ threads' = [threads EXCEPT ![t] =
                      [@ EXCEPT !.pc = "done",
                                !.verification_result =
                                   verification(FACE_RECOGNITION_AVAILABLE,
                                                threads[t].comparison_result,
                                                threads[t].student_details)]]
    /\ UNCHANGED <<service_vars, request_vars, camera_vars, pdf_vars, upload_vars>>

\* the caller of thread t has taken the record: the locals are gone
ThreadReturn(t) ==
    /\ threads[t].pc = "done"
    /\ threads' = [threads EXCEPT ![t] = IdleThread(threads[t].n)]
    /\ UNCHANGED <<service_vars, request_vars, camera_vars, pdf_vars, upload_vars>>

NextConcurrent ==
    \E t \in Threads :
        \/ ThreadCall(t)
        \/ ThreadExtractCamera(t)
        \/ ThreadExtractIdCard(t)
        \/ ThreadCompare(t)
        \/ ThreadVerify(t)
        \/ ThreadReturn(t)

SpecConcurrent == Init /\ [][NextConcurrent]_vars

-----------------------------------------------------------------------------
(* Calls of the camera routes, one after the other *)

\* the variables of the verification requests
verification_vars == <<service_vars, request_vars, threads>>

\* /start-camera: initialize_camera() on whatever camera is there
StartCamera ==
    /\ capture.pc = "idle"
    /\ \E device \in Devices :
          LET init == initialize_camera(camera, is_camera_active, device)
          IN  /\ camera' = init.camera
              /\ is_camera_active' = init.is_camera_active
              /\ camera_result' = [call |-> "initialize_camera", result |-> init.result]
    /\ UNCHANGED <<verification_vars, pdf_vars, upload_vars, capture, camera_folder>>

\* /capture-face: capture_face_live() up to its loop, initializing the camera
\* when the service has no active one
CaptureFaceLive ==
    /\ capture.pc = "idle"
    /\ Len(camera_folder) < MaxCaptures
    /\ IF ~is_camera_active \/ IsNone(camera)
       THEN \E device \in Devices :
               LET init_result == initialize_camera(camera, is_camera_active, device)
               IN  /\ camera' = init_result.camera
                   /\ is_camera_active' = init_result.is_camera_active
                   /\ capture' = IF init_result.result.success THEN EnteredCapture
                                 ELSE [pc |-> "returned", result |-> init_result.result]
       ELSE /\ capture' = EnteredCapture
            /\ UNCHANGED <<camera, is_camera_active>>
    /\ UNCHANGED <<verification_vars, pdf_vars, upload_vars, camera_folder, camera_result>>

\* one iteration of the loop of capture_face_live: a frame is read, its faces
\* are counted, a key is polled; the method returns on a failed read, on 'Q'
\* and on 'C' with exactly one face, which it saves
CaptureFrame ==
    /\ capture.pc = "loop"
    /\ \E ret \in (IF camera.isOpened THEN BOOLEAN ELSE {FALSE}),
          face_count \in 0..MaxFaces, key \in Keys :
          IF ~ret
          THEN /\ capture' = [pc |-> "returned", ret |-> FALSE,
                                result |-> [success |-> FALSE,
                                            error_code |-> "FRAME_READ_ERROR"]]
                               @@ capture
               /\ UNCHANGED camera_folder
          ELSE LET seen == [ret |-> TRUE, face_count |-> face_count, key |-> key]
               IN  IF key \in {"c", "C"} /\ ~capture_refused(face_count)
                   THEN LET path == CapturedPath(Len(camera_folder) + 1)
                        IN  /\ camera_folder' =
                                  Append(camera_folder,
                                         [path |-> path, face_count |-> face_count])
                            /\ capture' =
                                  [pc |-> "returned", captured_image_path |-> path,
                                   face_detected |-> TRUE,
                                   result |-> [success |-> TRUE, image_path |-> path]]
                                  @@ seen
                   ELSE IF key \in {"q", "Q"}
                   THEN /\ capture' =
                              [pc |-> "returned",
                               captured_image_path |-> capture.captured_image_path,
                               face_detected |-> capture.face_detected,
                               result |-> [success |-> FALSE,
                                           error_code |-> "CAPTURE_CANCELLED"]]
                              @@ seen
                        /\ UNCHANGED camera_folder
                   ELSE /\ capture' =
                              [pc |-> "loop",
                               captured_image_path |-> capture.captured_image_path,
                               face_detected |-> capture.face_detected] @@ seen
                        /\ UNCHANGED camera_folder
    /\ UNCHANGED <<verification_vars, pdf_vars, upload_vars, camera, is_camera_active, camera_result>>

\* capture_face_live has returned: /capture-face answers with its result
CaptureFaceReturn ==
    /\ capture.pc = "returned"
    /\ camera_result' = [call |-> "capture_face_live", result |-> capture.result]
    /\ capture' = IdleCapture
    /\ UNCHANGED <<verification_vars, pdf_vars, upload_vars, camera, is_camera_active, camera_folder>>

\* /release-camera: release_camera()
ReleaseCamera ==
    /\ capture.pc = "idle"
    /\ camera' = None
    /\ is_camera_active' = FALSE
    /\ camera_result' = [call |-> "release_camera", result |-> None]
    /\ UNCHANGED <<verification_vars, pdf_vars, upload_vars, capture, camera_folder>>

NextCamera ==
    \/ StartCamera
    \/ CaptureFaceLive
    \/ CaptureFrame
    \/ CaptureFaceReturn
    \/ ReleaseCamera

SpecCamera == Init /\ [][NextCamera]_vars

-----------------------------------------------------------------------------
(* Concurrent calls of extract_text_from_pdf on the shared PDFService *)

\* pdf_threads with the locals of thread t replaced
PdfThread(t, locals) == [pdf_threads EXCEPT ![t] = locals]

\* thread t serves /extract-text: extract_text_from_pdf(file_path) is called
PdfCall(t) ==
    /\ pdf_threads[t].pc = "idle"
    /\ pdf_threads[t].n < MaxCalls
    /\ \E file \in Pdfs :
          pdf_threads' = PdfThread(t, [pc |-> "extract", n |-> pdf_threads[t].n + 1,
                                       file |-> file])
    /\ UNCHANGED <<verification_vars, camera_vars, upload_vars, extracted_text>>

\* the file is validated and its pages are read into the local extracted_text
PdfExtract(t) ==
    /\ pdf_threads[t].pc = "extract"
    /\ LET validation == validate_pdf(pdf_threads[t].file)
       IN  pdf_threads' =
              PdfThread(t, IF ~validation.valid
                           THEN [pdf_threads[t] EXCEPT !.pc = "returned"]
                                   @@ [result |-> invalid_pdf(validation)]
                           ELSE [pdf_threads[t] EXCEPT !.pc = "store"]
                                   @@ [extracted_text |->
                                          JoinPages(pdf_threads[t].file.pages)])
    /\ UNCHANGED <<verification_vars, camera_vars, upload_vars, extracted_text>>

\* self.extracted_text = extracted_text.strip()
PdfStore(t) ==
    /\ pdf_threads[t].pc = "store"
    /\ extracted_text' = strip(pdf_threads[t].extracted_text)
    /\ pdf_threads' = PdfThread(t, [pdf_threads[t] EXCEPT !.pc = "check"])
    /\ UNCHANGED <<verification_vars, camera_vars, upload_vars>>

\* if not self.extracted_text: return NO_TEXT_FOUND
PdfCheck(t) ==
    /\ pdf_threads[t].pc = "check"
    /\ pdf_threads' =
          PdfThread(t, IF extracted_text = <<>>
                       THEN [pdf_threads[t] EXCEPT !.pc = "returned"]
                               @@ [result |-> no_text_found]
                       ELSE [pdf_threads[t] EXCEPT !.pc = "parse"])
    /\ UNCHANGED <<verification_vars, camera_vars, upload_vars, extracted_text>>

\* student_details = self.parse_student_details(self.extracted_text)
PdfParse(t) ==
    /\ pdf_threads[t].pc = "parse"
    /\ pdf_threads' =
          PdfThread(t, [pdf_threads[t] EXCEPT !.pc = "text"]
                          @@ [student_details |-> parse_student_details(extracted_text)])
    /\ UNCHANGED <<verification_vars, camera_vars, upload_vars, extracted_text>>

\* the result is built: "text": self.extracted_text is read
PdfResultText(t) ==
    /\ pdf_threads[t].pc = "text"
    /\ pdf_threads' =
          PdfThread(t, [pdf_threads[t] EXCEPT !.pc = "length"]
                          @@ [text |-> extracted_text])
    /\ UNCHANGED <<verification_vars, camera_vars, upload_vars, extracted_text>>

\* the result is built: "text_length": len(self.extracted_text) is read
PdfResultLength(t) ==
    /\ pdf_threads[t].pc = "length"
    /\ pdf_threads' =
          PdfThread(t, [pdf_threads[t] EXCEPT !.pc = "returned"]
                          @@ [result |-> text_result(pdf_threads[t].text,
                                                     pdf_threads[t].student_details,
                                                     len(extracted_text))])
    /\ UNCHANGED <<verification_vars, camera_vars, upload_vars, extracted_text>>

\* the route answers with the result; the locals are gone
PdfReturn(t) ==
    /\ pdf_threads[t].pc = "returned"
    /\ pdf_threads' = PdfThread(t, IdlePdfThread(pdf_threads[t].n))
    /\ UNCHANGED <<verification_vars, camera_vars, upload_vars, extracted_text>>

NextPdf ==
    \E t \in Threads :
        \/ PdfCall(t)
        \/ PdfExtract(t)
        \/ PdfStore(t)
        \/ PdfCheck(t)
        \/ PdfParse(t)
        \/ PdfResultText(t)
        \/ PdfResultLength(t)
        \/ PdfReturn(t)

SpecPdf == Init /\ [][NextPdf]_vars

-----------------------------------------------------------------------------
(* /upload-id-card requests, one after the other *)

\* a request arrives some time after the last one; a missing, empty or
\* disallowed file name is answered at once, any other file is saved
UploadIdCard ==
    /\ "pc" \notin DOMAIN upload
    /\ upload.n < MaxCalls
    /\ \E file \in Uploads, elapsed \in 0..1 :
          LET rejection == rejected_upload(file)
              file_path == UploadPath(now + elapsed, secure_filename(file.filename))
          IN  /\ now' = now + elapsed
              /\ IF ~IsNone(rejection)
                 THEN /\ upload' = [n |-> upload.n + 1, pc |-> "done", file |-> file,
                                    file_path |-> None, response |-> rejection]
                      /\ UNCHANGED upload_folder
                 ELSE /\ upload_folder' = save(upload_folder, file_path, file.content)
                      /\ upload' = [n |-> upload.n + 1, pc |-> "process", file |-> file,
                                    file_path |-> file_path]
    /\ UNCHANGED <<verification_vars, camera_vars, pdf_vars>>

\* process_id_card on the saved file; the file is removed when it fails
UploadProcess ==
    /\ "pc" \in DOMAIN upload
    /\ upload.pc = "process"
    /\ LET processing ==
              process_id_card(FileAt(upload_folder, upload.file_path), extracted_text)
       IN  /\ extracted_text' = processing.extracted_text
           /\ IF processing.result.success
              THEN /\ upload' = [upload EXCEPT !.pc = "done"] @@
                                   [processing_result |-> processing.result,
                                    response |-> [code |-> 200,
                                                  file_path |-> upload.file_path]]
                   /\ UNCHANGED upload_folder
              ELSE /\ upload_folder' = remove(upload_folder, upload.file_path)
                   /\ upload' = [upload EXCEPT !.pc = "done"] @@
                                   [processing_result |-> processing.result,
                                    response |->
                                       [code |-> 400,
                                        error_code |-> processing.result.error_code]]
    /\ UNCHANGED <<verification_vars, camera_vars, pdf_threads, now>>

\* the answer is sent; the locals of the request are gone
UploadReturn ==
    /\ "pc" \in DOMAIN upload
    /\ upload.pc = "done"
    /\ upload' = [n |-> upload.n]
    /\ UNCHANGED <<verification_vars, camera_vars, pdf_vars, upload_folder, now>>

NextUpload ==
    \/ UploadIdCard
    \/ UploadProcess
    \/ UploadReturn

SpecUpload == Init /\ [][NextUpload]_vars

-----------------------------------------------------------------------------
(* Properties *)

\* the quality reports a /verify request has obtained, each with its image
QualityReports ==
    IF IsNone(camera_quality) THEN {}
    ELSE {[image |-> camera_image, report |-> camera_quality],
          [image |-> id_card_image, report |-> id_card_quality]}

\* the four checks of the quality gate in their order, each with whether the
\* image passes it and the error kinds it can give
QualityChecks(image) ==
    <<[ok |-> image.file = "image", errors |-> {"IMAGE_READ_ERROR"}],
      [ok |-> image.width >= MinResolution /\ image.height >= MinResolution,
       errors |-> {"LOW_RESOLUTION"}],
      [ok |-> image.brightness >= MinBrightness /\ image.brightness <= MaxBrightness,
       errors |-> {"TOO_DARK", "TOO_BRIGHT"}],
      [ok |-> image.laplacian >= MinSharpness, errors |-> {"BLURRY_IMAGE"}]>>

\* C1: validate_image_quality checks decode, resolution, brightness and
\* sharpness in that order and reports the error of the first check that
\* fails only; the report is valid exactly when all four checks pass.
C1_FirstFailingCheckReported ==
    \A q \in QualityReports :
        LET checks == QualityChecks(q.image)
            failing == {i \in DOMAIN checks : ~checks[i].ok}
        IN  /\ q.report.valid <=> failing = {}
            /\ failing # {} =>
                  LET first == CHOOSE i \in failing : \A j \in failing : i <= j
                  IN  q.report.error_code \in checks[first].errors

\* C1 witness: an image that is too small, too dark and blurry at once has been
\* reported as LOW_RESOLUTION
C1_Witness ==
    /\ ~IsNone(camera_quality)
    /\ camera_image.file = "image"
    /\ camera_image.width < 100
    /\ camera_image.brightness < 30
    /\ camera_image.laplacian < 100
    /\ ~camera_quality.valid
    /\ camera_quality.error_code = "LOW_RESOLUTION"

\* the error kind of a quality report, "" for a valid one
QualityError(report) == IF report.valid THEN "" ELSE report.error_code

\* C2: for a decoded image, LOW_RESOLUTION iff width < 100 or height < 100;
\* otherwise TOO_DARK iff brightness < 30 and TOO_BRIGHT iff brightness > 225;
\* otherwise BLURRY_IMAGE iff Laplacian variance < 100; the thresholds
\* themselves (100x100, 30, 225, 100) pass.
C2_ThresholdsInclusive ==
    \A q \in QualityReports :
        q.image.file = "image" =>
            LET small == q.image.width < 100 \/ q.image.height < 100
                dark == q.image.brightness < 30
                bright == q.image.brightness > 225
                blurry == q.image.laplacian < 100
                error == QualityError(q.report)
            IN  /\ error = "LOW_RESOLUTION" <=> small
                /\ ~small => /\ error = "TOO_DARK" <=> dark
                             /\ error = "TOO_BRIGHT" <=> bright
                /\ (~small /\ ~dark /\ ~bright) => (error = "BLURRY_IMAGE" <=> blurry)
                /\ (~small /\ ~dark /\ ~bright /\ ~blurry) => q.report.valid

\* C2 witness: a 100x100 image of brightness 30 and sharpness 100, and one of
\* brightness 225, have both been accepted
C2_Witness ==
    /\ ~IsNone(camera_quality)
    /\ camera_image.file = "image" /\ id_card_image.file = "image"
    /\ camera_image.width = 100 /\ camera_image.height = 100
    /\ camera_image.brightness = 30 /\ camera_image.laplacian = 100
    /\ id_card_image.width = 100 /\ id_card_image.height = 100
    /\ id_card_image.brightness = 225 /\ id_card_image.laplacian = 100
    /\ camera_quality.valid /\ id_card_quality.valid

\* the extraction results a request has obtained, each with its image
ExtractionResults ==
    (IF IsNone(encoding1_result) THEN {}
     ELSE {[image |-> camera_image, result |-> encoding1_result]})
    \cup (IF IsNone(encoding2_result) THEN {}
          ELSE {[image |-> id_card_image, result |-> encoding2_result]})

\* the error kind of a service result, "" for a successful one
ErrorCode(result) == IF result.success THEN "" ELSE result.error_code

\* C3: in both variants, for a readable image, extraction fails with
\* NO_FACE_DETECTED when the detector reports 0 faces, with
\* MULTIPLE_FACES_DETECTED when it reports 2 or more, and succeeds only when
\* it reports exactly 1.
C3_CardinalityGating ==
    \A e \in ExtractionResults :
        e.image.file = "image" =>
            /\ Len(e.image.faces) = 0 => ErrorCode(e.result) = "NO_FACE_DETECTED"
            /\ Len(e.image.faces) >= 2 => ErrorCode(e.result) = "MULTIPLE_FACES_DETECTED"
            /\ e.result.success <=> Len(e.image.faces) = 1

\* C3 divergence: the heuristic variant has answered a readable image in which
\* the detector finds no face with OPENCV_DETECTION_ERROR
C3_NoFaceReportedAsDetectionError ==
    /\ ~FACE_RECOGNITION_AVAILABLE
    /\ ~IsNone(encoding1_result)
    /\ camera_image.file = "image"
    /\ Len(camera_image.faces) = 0
    /\ ErrorCode(encoding1_result) = "OPENCV_DETECTION_ERROR"

\* a successful comparison of the embedding path is at hand
EmbeddingCompared ==
    /\ FACE_RECOGNITION_AVAILABLE
    /\ ~IsNone(comparison_result)
    /\ comparison_result.success

\* the squared distance between the two images' single encodings, 1e-8 units
CapturedDistance2 ==
    LET e1 == camera_image.encodings[1]
        e2 == id_card_image.encodings[1]
    IN  (e1[1] - e2[1]) * (e1[1] - e2[1]) + (e1[2] - e2[2]) * (e1[2] - e2[2])

\* C4: on the embedding path is_match = (d <= t), the boundary d = t being a
\* match, and confidence = max(0, (1 - d) * 100) to two decimals; with
\* t = 0.6, d = 0.35 gives a match at 65.00 and d = 0.75 no match at 25.00.
C4_EmbeddingDecision ==
    EmbeddingCompared =>
        LET d2 == CapturedDistance2
            c == comparison_result.confidence
            r == 10000 - c
        IN  /\ comparison_result.is_match <=> d2 <= tolerance * tolerance
            /\ IF d2 >= 10000 * 10000 THEN c = 0
               ELSE /\ c >= 0
                    /\ 4 * d2 <= (2 * r + 1) * (2 * r + 1)
                    /\ r > 0 => (2 * r - 1) * (2 * r - 1) <= 4 * d2
            /\ (tolerance = 6000 /\ d2 = 3500 * 3500) =>
                  (comparison_result.is_match /\ c = 6500)
            /\ (tolerance = 6000 /\ d2 = 7500 * 7500) =>
                  (~comparison_result.is_match /\ c = 2500)

\* C4 witness: a distance equal to the tolerance 0.6 has been counted a match
C4_Witness ==
    /\ EmbeddingCompared
    /\ tolerance = 6000
    /\ CapturedDistance2 = 6000 * 6000
    /\ comparison_result.is_match
    /\ comparison_result.confidence = 4000

\* a successful comparison of the heuristic path is at hand
HeuristicCompared ==
    /\ ~FACE_RECOGNITION_AVAILABLE
    /\ ~IsNone(comparison_result)
    /\ comparison_result.success

\* the weighted sum of a similarity breakdown, in units of 1e-5
WeightedSum(b) ==
    4 * b.histogram_correlation + 2 * b.intensity_similarity
        + 2 * b.ratio_similarity + 2 * b.size_similarity

\* C5: on the heuristic path combined = 0.4 h + 0.2 i + 0.2 r + 0.2 s,
\* confidence = clamp(combined * 100, 0, 100) to two decimals and
\* is_match = (combined >= 0.4), the boundary 0.4 being a match; the
\* sub-scores {0.9, 0.8, 0.95, 0.85} give 0.88, 88.00 and a match.
C5_HeuristicDecision ==
    HeuristicCompared =>
        LET b == comparison_result.details.similarity_breakdown
            combined == WeightedSum(b)
            clamped == IF combined < 0 THEN 0
                       ELSE IF combined > 100000 THEN 100000 ELSE combined
            c == comparison_result.confidence
        IN  /\ comparison_result.is_match <=> combined >= 40000
            /\ 10 * c - clamped <= 5
            /\ clamped - 10 * c <= 5
            /\ (b.histogram_correlation = 9000 /\ b.intensity_similarity = 8000
                   /\ b.ratio_similarity = 9500 /\ b.size_similarity = 8500) =>
                  (combined = 88000 /\ c = 8800 /\ comparison_result.is_match)

\* C5 witness: the sub-scores 0.9, 0.8, 0.95, 0.85 have been combined
C5_Witness ==
    /\ HeuristicCompared
    /\ comparison_result.details.similarity_breakdown =
          [histogram_correlation |-> 9000, intensity_similarity |-> 8000,
           ratio_similarity |-> 9500, size_similarity |-> 8500]
    /\ comparison_result.confidence = 8800
    /\ comparison_result.is_match

\* the results of compare_faces, compare_faces_basic and verify_identity at hand
ServiceResults ==
    {r \in {comparison_result, verification_result} : ~IsNone(r)}

\* C6: every result of compare_faces, compare_faces_basic and verify_identity
\* that reports a confidence, successful or failed, in either variant, reports
\* one in [0, 100].
C6_ConfidenceInRange ==
    \A r \in ServiceResults :
        /\ r.success => "confidence" \in DOMAIN r
        /\ "confidence" \in DOMAIN r => (r.confidence >= 0 /\ r.confidence <= 10000)

\* C6 witness: an embedding distance above 1 has been reported with confidence 0
C6_Witness ==
    /\ EmbeddingCompared
    /\ CapturedDistance2 > 10000 * 10000
    /\ comparison_result.confidence = 0
    /\ ~IsNone(verification_result)
    /\ verification_result.success
    /\ verification_result.confidence = 0

\* the similarity breakdown of the heuristic comparison at hand
Breakdown == comparison_result.details.similarity_breakdown

\* C7 as stated: each of the four sub-scores reported in similarity_breakdown
\* lies in [0, 1].
C7_SubScoresInUnitInterval ==
    HeuristicCompared =>
        /\ Breakdown.histogram_correlation >= 0 /\ Breakdown.histogram_correlation <= 10000
        /\ Breakdown.intensity_similarity >= 0 /\ Breakdown.intensity_similarity <= 10000
        /\ Breakdown.ratio_similarity >= 0 /\ Breakdown.ratio_similarity <= 10000
        /\ Breakdown.size_similarity >= 0 /\ Breakdown.size_similarity <= 10000

\* C7 amended: intensity, aspect-ratio and size similarity lie in [0, 1]; the
\* histogram correlation lies in [-1, 1].
C7_SubScoresBounded ==
    HeuristicCompared =>
        /\ Breakdown.histogram_correlation >= -10000
        /\ Breakdown.histogram_correlation <= 10000
        /\ Breakdown.intensity_similarity >= 0 /\ Breakdown.intensity_similarity <= 10000
        /\ Breakdown.ratio_similarity >= 0 /\ Breakdown.ratio_similarity <= 10000
        /\ Breakdown.size_similarity >= 0 /\ Breakdown.size_similarity <= 10000

\* C7 witness: a negative histogram correlation has been reported, next to an
\* aspect-ratio similarity held at 0
C7_Witness ==
    /\ HeuristicCompared
    /\ Breakdown.histogram_correlation < 0
    /\ Breakdown.ratio_similarity = 0

\* a successful verification record is at hand
Verified == ~IsNone(verification_result) /\ verification_result.success

\* C8: in the embedding variant a successful verify_identity record carries the
\* high tier iff confidence >= 80, the moderate tier iff 60 <= confidence < 80
\* and the low, manual-review tier iff confidence < 60.
C8_EmbeddingTiers ==
    (FACE_RECOGNITION_AVAILABLE /\ Verified) =>
        LET c == verification_result.confidence
            tier == verification_result.recommendation
        IN  /\ tier = "High confidence match" <=> c >= 8000
            /\ tier = "Moderate confidence match" <=> (c >= 6000 /\ c < 8000)
            /\ tier = "Low confidence - manual review recommended" <=> c < 6000

\* C8 witness: a confidence of exactly 80 has been given the high tier
C8_Witness ==
    /\ FACE_RECOGNITION_AVAILABLE
    /\ Verified
    /\ verification_result.confidence = 8000
    /\ verification_result.recommendation = "High confidence match"

\* C9: in the heuristic variant a successful verify_identity record carries the
\* moderate (basic method) tier iff confidence >= 70, the low (basic method)
\* tier iff 50 <= confidence < 70 and the very-low, manual-review tier iff
\* confidence < 50; confidence 88 has the moderate (basic method) tier.
C9_HeuristicTiers ==
    (~FACE_RECOGNITION_AVAILABLE /\ Verified) =>
        LET c == verification_result.confidence
            tier == verification_result.recommendation
        IN  /\ tier = "Moderate confidence match (basic method)" <=> c >= 7000
            /\ tier = "Low confidence match (basic method)" <=> (c >= 5000 /\ c < 7000)
            /\ tier = "Very low confidence - manual review required" <=> c < 5000
            /\ c = 8800 => tier = "Moderate confidence match (basic method)"

\* C9 witness: a confidence of exactly 50 has been given the low (basic method) tier
C9_Witness ==
    /\ ~FACE_RECOGNITION_AVAILABLE
    /\ Verified
    /\ verification_result.confidence = 5000
    /\ verification_result.recommendation = "Low confidence match (basic method)"

\* the place of a stage in QUALITY_CHECK .. RESULT
StageRank(stage) ==
    CASE stage = "QUALITY_CHECK" -> 1
      [] stage = "FACE_DETECTION" -> 2
      [] stage = "REPRESENTATION_EXTRACTION" -> 3
      [] stage = "COMPARISON" -> 4
      [] stage = "RESULT" -> 5

\* the stages entered so far
Entered == {stage_log[i] : i \in DOMAIN stage_log}

\* the extraction from the camera image has failed
CameraExtractionFailed == ~IsNone(encoding1_result) /\ ~encoding1_result.success

\* the extraction from the ID card image has failed
IdCardExtractionFailed == ~IsNone(encoding2_result) /\ ~encoding2_result.success

\* an image has failed the quality gate
QualityFailed ==
    ~IsNone(camera_quality) /\ (~camera_quality.valid \/ ~id_card_quality.valid)

\* C10 as stated: no stage is entered after a later stage has been entered,
\* and once a stage has failed no later stage is executed.
C10_StagesNeverGoBack ==
    /\ \A i, j \in DOMAIN stage_log :
          i < j => StageRank(stage_log[i].stage) <= StageRank(stage_log[j].stage)
    /\ CameraExtractionFailed =>
          \A e \in Entered : e.image = "id_card" => e.stage = "QUALITY_CHECK"

\* the order in which one call can enter its stages, image by image
StageOrder ==
    <<StageEntry("QUALITY_CHECK", "camera"), StageEntry("QUALITY_CHECK", "id_card"),
      StageEntry("FACE_DETECTION", "camera"),
      StageEntry("REPRESENTATION_EXTRACTION", "camera"),
      StageEntry("FACE_DETECTION", "id_card"),
      StageEntry("REPRESENTATION_EXTRACTION", "id_card"),
      StageEntry("COMPARISON", "both"), StageEntry("RESULT", "both")>>

\* the place of an entry in StageOrder
Place(entry) == CHOOSE k \in DOMAIN StageOrder : StageOrder[k] = entry

\* C10 amended: a call checks the quality of both images first and a quality
\* failure ends it before any face analysis; detection and then extraction
\* run on the camera image and afterwards on the ID card image, also when the
\* camera image has failed; COMPARISON is entered only after both extractions
\* succeeded and RESULT only after a successful COMPARISON; a call in which a
\* quality check or an extraction failed ends in a failure.
C10_StagesInOrder ==
    /\ \A e \in Entered : e \in {StageOrder[k] : k \in DOMAIN StageOrder}
    /\ \A i, j \in DOMAIN stage_log :
          i < j => Place(stage_log[i]) < Place(stage_log[j])
    /\ QualityFailed =>
          /\ \A e \in Entered : e.stage = "QUALITY_CHECK"
          /\ pc = "done" /\ response.status = "error"
    /\ (~IsNone(endpoint) /\ endpoint.route = "/verify" /\ stage_log # <<>>) =>
          (Len(stage_log) >= 2 /\ stage_log[1] = StageOrder[1]
              /\ stage_log[2] = StageOrder[2])
    /\ StageEntry("COMPARISON", "both") \in Entered =>
          (encoding1_result.success /\ encoding2_result.success)
    /\ StageEntry("RESULT", "both") \in Entered =>
          (StageEntry("COMPARISON", "both") \in Entered /\ comparison_result.success)
    /\ (CameraExtractionFailed \/ IdCardExtractionFailed) =>
          /\ StageEntry("COMPARISON", "both") \notin Entered
          /\ StageEntry("RESULT", "both") \notin Entered
          /\ pc = "done" => response.status = "error"

\* C10 witness: a /verify call whose camera image has no single face has gone
\* on to extract the ID card image's representation and has ended in a failure
C10_Witness ==
    /\ pc = "done"
    /\ endpoint.route = "/verify"
    /\ CameraExtractionFailed
    /\ StageEntry("REPRESENTATION_EXTRACTION", "id_card") \in Entered
    /\ StageEntry("COMPARISON", "both") \notin Entered
    /\ response.status = "error"

\* the five error kinds of the quality gate
QualityKinds ==
    {"IMAGE_READ_ERROR", "LOW_RESOLUTION", "TOO_DARK", "TOO_BRIGHT", "BLURRY_IMAGE"}

\* the current request is a /verify request
Verifying == ~IsNone(endpoint) /\ endpoint.route = "/verify"

\* face analysis or scoring has produced something for the current request
FaceAnalysisStarted ==
    \/ ~IsNone(encoding1_result) \/ ~IsNone(encoding2_result)
    \/ ~IsNone(comparison_result) \/ ~IsNone(verification_result)

ExpectedIssues ==
    (IF camera_quality.valid THEN <<>>
     ELSE <<[image |-> "Camera image", issue |-> camera_quality.message]>>)
    \o (IF id_card_quality.valid THEN <<>>
        ELSE <<[image |-> "ID card image", issue |-> id_card_quality.message]>>)

TaggedError(document_prefix) ==
    IF ~encoding1_result.success
    THEN "CAMERA_IMAGE_" \o encoding1_result.error_code
    ELSE document_prefix \o encoding2_result.error_code

\* the comparison of the current request has failed on an extraction, and
\* what has been derived from it so far carries the given error kind
ExtractionFailureSurfaces(error_code) ==
    /\ ~comparison_result.success
    /\ comparison_result.error_code = error_code
    /\ ~IsNone(verification_result) =>
          (~verification_result.success /\ verification_result.error_code = error_code)
    /\ pc = "done" => (response.status = "error" /\ response.error_code = error_code)

SurfacedErrors ==
    (IF ~IsNone(verification_result) /\ ~verification_result.success
     THEN {verification_result.error_code} ELSE {})
    \cup (IF Verifying /\ ~IsNone(response) /\ response.status = "error"
          THEN {response.error_code} ELSE {})

\* the eight kinds the specification enumerates
EnumeratedKinds ==
    QualityKinds \cup {"NO_FACE_DETECTED", "MULTIPLE_FACES_DETECTED", "COMPARISON_ERROR"}

\* the given kinds, each also with each of the given prefixes
Prefixed(prefixes, kinds) == {p \o k : p \in prefixes, k \in kinds}

ExtractionKinds ==
    {"FILE_NOT_FOUND", "IMAGE_READ_ERROR", "OPENCV_DETECTION_ERROR",
     "DLIB_DETECTION_ERROR", "NO_FACE_DETECTED", "MULTIPLE_FACES_DETECTED",
     "ENCODING_EXTRACTION_ERROR", "FEATURE_EXTRACTION_ERROR"}

\* the error kinds of the service's verify_identity
ServiceKinds ==
    {"COMPARISON_ERROR", "VERIFICATION_ERROR"}
        \cup Prefixed({"CAMERA_IMAGE_", "ID_CARD_IMAGE_"}, ExtractionKinds)

\* the error kinds the /verify route adds for a request naming two images
RouteKinds ==
    {"CAMERA_IMAGE_NOT_FOUND", "ID_CARD_IMAGE_NOT_FOUND", "POOR_IMAGE_QUALITY",
     "VERIFICATION_EXCEPTION"}

ScoringRaised ==
    /\ ~IsNone(comparison_result)
    /\ encoding1_result.success
    /\ encoding2_result.success
    /\ ~comparison_result.success

\* the keys of an outcome
OutcomeKeys ==
    {"is_match", "face_distance", "similarity_score", "recommendation",
     "verification_details"}

\* C14: an exception raised while scoring two successfully extracted
\* representations ends the call with COMPARISON_ERROR, and the failed
\* verification result has success false and confidence 0 and carries no
\* is_match, score or recommendation.
C14_ScoringExceptionIsComparisonError ==
    ScoringRaised =>
        /\ comparison_result.error_code = "COMPARISON_ERROR"
        /\ DOMAIN comparison_result \cap (OutcomeKeys \cup {"confidence"}) = {}
        /\ ~IsNone(verification_result) =>
              /\ ~verification_result.success
              /\ verification_result.confidence = 0
              /\ verification_result.error_code = "COMPARISON_ERROR"
              /\ verification_result.result = "Verification Failed"
              /\ DOMAIN verification_result \cap OutcomeKeys = {}
        /\ pc = "done" =>
              /\ response.status = "error"
              /\ response.error_code = "COMPARISON_ERROR"
        /\ StageEntry("RESULT", "both") \notin Entered

\* C14 witness: a /verify request whose scoring raised has ended with a failed
\* record of confidence 0 and the error kind COMPARISON_ERROR
C14_Witness ==
    /\ ScoringRaised
    /\ Verifying
    /\ pc = "done"
    /\ verification_result.confidence = 0
    /\ verification_result.error_code = "COMPARISON_ERROR"
    /\ response.error_code = "COMPARISON_ERROR"

\* the /verify request has been answered with a data part
AnsweredWithData ==
    Verifying /\ pc = "done" /\ "data" \in DOMAIN response

AnsweredKeys ==
    {"name", "register_number", "department", "college", "year", "course"}

Representations ==
    {e.result : e \in {x \in ExtractionResults : x.result.success}}

\* a representation is an embedding (an encoding), else a feature bundle
IsEmbedding(representation) == "encoding" \in DOMAIN representation

\* in this state everything is of the variant fixed by the backend's availability
OneVariant ==
    /\ IsNone(fallback_service) <=> FACE_RECOGNITION_AVAILABLE
    /\ \A r \in Representations :
          /\ IsEmbedding(r) <=> FACE_RECOGNITION_AVAILABLE
          /\ "features" \in DOMAIN r <=> ~FACE_RECOGNITION_AVAILABLE
    /\ (~IsNone(comparison_result) /\ comparison_result.success) =>
          comparison_result.method =
             (IF FACE_RECOGNITION_AVAILABLE THEN "Advanced face_recognition library"
              ELSE "Basic OpenCV comparison")
    /\ (~IsNone(verification_result) /\ verification_result.success) =>
          ("face_distance" \in DOMAIN verification_result <=> FACE_RECOGNITION_AVAILABLE)

\* C16: the variant is decided at process start and never changes; every
\* extraction, comparison and verification of every call uses it, the two
\* images of one comparison are represented in the same variant, and the
\* fallback service exists exactly when the embedding backend is unavailable.
C16_VariantFixed ==
    /\ []OneVariant
    /\ [][/\ FACE_RECOGNITION_AVAILABLE' = FACE_RECOGNITION_AVAILABLE
          /\ fallback_service' = fallback_service]_vars

\* C16 witness: in a process without the embedding backend the second request
\* has compared two feature bundles with the heuristic method
C16_Witness ==
    /\ ~FACE_RECOGNITION_AVAILABLE
    /\ ~IsNone(fallback_service)
    /\ calls = 2
    /\ ~IsNone(comparison_result)
    /\ comparison_result.success
    /\ comparison_result.method = "Basic OpenCV comparison"
    /\ \A r \in Representations : ~IsEmbedding(r)
    /\ Cardinality(Representations) >= 1

\* the records verify_identity can return for the given inputs: the one its
\* extraction, scoring and tiers give, or the COMPARISON_ERROR record when the
\* scoring of two extracted representations raised
Outcomes(image1, image2, details) ==
    {verify_identity(FACE_RECOGNITION_AVAILABLE, tolerance, image1, image2, details)}
    \cup (IF compare_faces(FACE_RECOGNITION_AVAILABLE, tolerance, image1, image2).success
          THEN {failed_verification(comparison_error, details)}
          ELSE {})

\* every finished call holds a record that its own inputs and the configured
\* tolerance determine
OwnOutcome ==
    \A t \in Threads :
        threads[t].pc = "done" =>
            threads[t].verification_result \in
                Outcomes(threads[t].camera_image, threads[t].id_card_image,
                         threads[t].student_details)

\* C17: the outcome of a verify_identity call depends only on that call's two
\* images, metadata and the configured tolerance, whatever calls ran before it
\* or run concurrently with it on the shared service instance; no call writes
\* service state, and no step of one call writes the locals of another.
C17_CallsIsolated ==
    /\ []OwnOutcome
    /\ [][/\ FACE_RECOGNITION_AVAILABLE' = FACE_RECOGNITION_AVAILABLE
          /\ tolerance' = tolerance
          /\ fallback_service' = fallback_service
          /\ \A t \in Threads :
                threads'[t] # threads[t] =>
                   \A u \in Threads \ {t} : threads'[u] = threads[u]]_vars

\* C17 witness: one thread has finished its second call with a successful
\* record while the other, on different images, has failed on its camera image
C17_Witness ==
    /\ threads["thread1"].pc = "done"
    /\ threads["thread1"].n = 2
    /\ threads["thread1"].verification_result.success
    /\ threads["thread2"].pc = "done"
    /\ ~threads["thread2"].verification_result.success
    /\ threads["thread2"].camera_image # threads["thread1"].camera_image

\* the score of a successful comparison: the distance of the embedding path,
\* the similarity of the heuristic path
Score(result) ==
    IF "face_distance" \in DOMAIN result THEN result.face_distance
    ELSE result.similarity_score

\* the comparison of the current request's images in the other order
Swapped ==
    compare_faces(FACE_RECOGNITION_AVAILABLE, tolerance, id_card_image, camera_image)

\* C18: in both variants compare(A, B) and compare(B, A) report the same
\* score, the same confidence and the same is_match.
C18_ComparisonSymmetric ==
    (~IsNone(comparison_result) /\ comparison_result.success) =>
        /\ Swapped.success
        /\ Score(Swapped) = Score(comparison_result)
        /\ Swapped.confidence = comparison_result.confidence
        /\ Swapped.is_match = comparison_result.is_match
        /\ ~FACE_RECOGNITION_AVAILABLE =>
              Swapped.details.similarity_breakdown =
                 comparison_result.details.similarity_breakdown

\* C18 witness: two faces of different size, shape, brightness and histogram
\* have been compared by the heuristic path, giving 88.00 in either order
C18_Witness ==
    /\ HeuristicCompared
    /\ encoding1_result.features.face_area # encoding2_result.features.face_area
    /\ encoding1_result.features.mean_intensity
          # encoding2_result.features.mean_intensity
    /\ comparison_result.confidence = 8800
    /\ Swapped.confidence = 8800

\* the two images of the current comparison have given the same representation
SameRepresentation ==
    /\ ~IsNone(comparison_result)
    /\ comparison_result.success
    /\ IF FACE_RECOGNITION_AVAILABLE
       THEN encoding1_result.encoding = encoding2_result.encoding
       ELSE encoding1_result.features = encoding2_result.features

\* C19: comparing a representation with itself gives distance 0, confidence
\* 100 and is_match true in the embedding variant, and in the heuristic
\* variant four sub-scores of 1, combined similarity 1, confidence 100 and
\* is_match true.
C19_SelfComparisonIsBest ==
    SameRepresentation =>
        /\ comparison_result.confidence = 10000
        /\ comparison_result.is_match
        /\ comparison_result.result = "Verified"
        /\ FACE_RECOGNITION_AVAILABLE => comparison_result.face_distance = 0
        /\ ~FACE_RECOGNITION_AVAILABLE =>
              /\ comparison_result.similarity_score = 10000
              /\ comparison_result.details.similarity_breakdown =
                    [histogram_correlation |-> 10000, intensity_similarity |-> 10000,
                     ratio_similarity |-> 10000, size_similarity |-> 10000]

\* C19 witness: the heuristic path has compared an image with itself
C19_Witness ==
    /\ SameRepresentation
    /\ ~FACE_RECOGNITION_AVAILABLE
    /\ camera_image = id_card_image
    /\ comparison_result.confidence = 10000
    /\ comparison_result.is_match

\* distances 0, 0.025, .. 2 that a comparison is set against, as squares
DistanceGrid == {(250 * k) * (250 * k) : k \in 0..80}

\* combined similarities -1, -0.975, .. 1.5 that a comparison is set against,
\* in units of 1e-5
SimilarityGrid == {2500 * k : k \in (0 - 40)..60}

\* C20: confidence is monotone in the score: on the embedding path a smaller
\* distance never has the lower confidence and a match at a distance is a
\* match at every smaller one; on the heuristic path a larger combined
\* similarity never has the lower confidence and a match at a similarity is a
\* match at every larger one.
C20_ConfidenceMonotone ==
    /\ EmbeddingCompared =>
          \A d2 \in DistanceGrid :
             /\ d2 <= CapturedDistance2 =>
                   /\ embedding_confidence(d2) >= comparison_result.confidence
                   /\ comparison_result.is_match => embedding_is_match(d2, tolerance)
             /\ d2 >= CapturedDistance2 =>
                   /\ embedding_confidence(d2) <= comparison_result.confidence
                   /\ embedding_is_match(d2, tolerance) => comparison_result.is_match
    /\ HeuristicCompared =>
          \A s2 \in SimilarityGrid :
             /\ s2 <= WeightedSum(Breakdown) =>
                   /\ basic_confidence(s2) <= comparison_result.confidence
                   /\ basic_is_match(s2) => comparison_result.is_match
             /\ s2 >= WeightedSum(Breakdown) =>
                   /\ basic_confidence(s2) >= comparison_result.confidence
                   /\ comparison_result.is_match => basic_is_match(s2)

\* C20 witness: a comparison at distance 1.2 has been given confidence 0 and no
\* match, as the distance 1 is on the grid it is set against
C20_Witness ==
    /\ EmbeddingCompared
    /\ CapturedDistance2 = 12000 * 12000
    /\ comparison_result.confidence = 0
    /\ ~comparison_result.is_match
    /\ 10000 * 10000 \in DistanceGrid

\* C21: in every successful result is_match is what the reported score and
\* the reported threshold give: reported 4-decimal distance <= tolerance_used
\* on the embedding path, reported 4-decimal similarity >= tolerance_used on
\* the heuristic path.
C21_MatchFollowsReportedScore ==
    /\ EmbeddingCompared =>
          (comparison_result.is_match <=>
              comparison_result.face_distance <= comparison_result.tolerance_used)
    /\ HeuristicCompared =>
          (comparison_result.is_match <=>
              comparison_result.similarity_score >= comparison_result.tolerance_used)

\* C21, embedding path: a distance just above the tolerance 0.35 is reported
\* as 0.3500 with tolerance_used 0.35 and is_match false
C21_ReportedDistanceAtToleranceNoMatch ==
    /\ EmbeddingCompared
    /\ CapturedDistance2 > tolerance * tolerance
    /\ comparison_result.face_distance = comparison_result.tolerance_used
    /\ ~comparison_result.is_match

\* the four sub-scores of the heuristic comparison
SubScores ==
    {"histogram_correlation", "intensity_similarity", "ratio_similarity",
     "size_similarity"}

\* a successful verification record of the heuristic path is at hand
HeuristicVerified == ~FACE_RECOGNITION_AVAILABLE /\ Verified

\* C22: every successful result of the heuristic path carries the breakdown
\* with all four sub-scores: compare_faces_basic under details, and
\* verify_identity under verification_details, where it is the comparison's.
C22_BreakdownAlwaysAttached ==
    /\ HeuristicCompared =>
          /\ "similarity_breakdown" \in DOMAIN comparison_result.details
          /\ DOMAIN comparison_result.details.similarity_breakdown = SubScores
    /\ HeuristicVerified =>
          /\ "similarity_breakdown" \in DOMAIN verification_result.verification_details
          /\ DOMAIN verification_result.verification_details.similarity_breakdown
                = SubScores
          /\ verification_result.verification_details.similarity_breakdown
                = comparison_result.details.similarity_breakdown

\* C22 witness: a heuristic verification of two different faces has been
\* recorded with its four sub-scores
C22_Witness ==
    /\ HeuristicVerified
    /\ camera_image.face_hist # id_card_image.face_hist
    /\ DOMAIN verification_result.verification_details.similarity_breakdown = SubScores
    /\ verification_result.verification_details.similarity_breakdown.histogram_correlation
          < Unit

\* C23: the tolerance_used of a successful result is the threshold the match
\* decision was taken against: on the embedding path the tolerance the
\* service was constructed with, on the heuristic path the constant 0.4
\* whatever that tolerance is; a verification record reports the same value.
C23_ToleranceUsedIsThresholdApplied ==
    /\ EmbeddingCompared =>
          /\ comparison_result.tolerance_used = tolerance
          /\ comparison_result.is_match <=>
                CapturedDistance2 <= comparison_result.tolerance_used
                                        * comparison_result.tolerance_used
    /\ HeuristicCompared =>
          /\ comparison_result.tolerance_used = (4 * Unit) \div 10
          /\ comparison_result.is_match <=>
                WeightedSum(Breakdown) >= 10 * comparison_result.tolerance_used
    /\ Verified =>
          verification_result.verification_details.tolerance_used
             = comparison_result.tolerance_used

\* C23 witness: a heuristic service constructed with tolerance 0.35 has
\* decided against 0.4 and its record reports 0.4
C23_Witness ==
    /\ HeuristicVerified
    /\ tolerance = (35 * Unit) \div 100
    /\ verification_result.verification_details.tolerance_used = (4 * Unit) \div 10
    /\ comparison_result.tolerance_used # tolerance

\* the recommendations that name a match
MatchRecommendations ==
    {"High confidence match", "Moderate confidence match",
     "Moderate confidence match (basic method)",
     "Low confidence match (basic method)"}

\* C24: in every successful verification record, whatever the tolerance the
\* service was constructed with, a recommendation that names a match is given
\* only when is_match is true.
C24_MatchRecommendationOnlyForMatch ==
    Verified =>
        (verification_result.recommendation \in MatchRecommendations
            => verification_result.is_match)

\* C24: a service constructed with tolerance 0.35 has recorded a distance of
\* 0.4 as Not Verified with the recommendation "Moderate confidence match"
C24_NoMatchRecommendedAsMatch ==
    /\ Verified
    /\ FACE_RECOGNITION_AVAILABLE
    /\ tolerance = (35 * Unit) \div 100
    /\ CapturedDistance2 = 4000 * 4000
    /\ verification_result.result = "Not Verified"
    /\ ~verification_result.is_match
    /\ verification_result.confidence = 6000
    /\ verification_result.recommendation = "Moderate confidence match"

\* C24, the part that holds: with the default tolerance 0.6, and on the
\* heuristic path with any tolerance, no record combines is_match false with
\* a recommendation that names a match
C24_HoldsAtDefaultTolerance ==
    (Verified /\ (~FACE_RECOGNITION_AVAILABLE \/ tolerance = FACE_RECOGNITION_TOLERANCE)) =>
        (verification_result.recommendation \in MatchRecommendations
            => verification_result.is_match)

\* the route has answered the request at hand
Answered == pc = "done" /\ ~IsNone(response)

\* the service result the route of the request at hand answers from
ServiceResult ==
    IF endpoint.route = "/verify" THEN verification_result ELSE comparison_result

\* C25: a successful service result is never turned into an error by the
\* route: when verify_identity (for /verify) or compare_faces (for
\* /compare-faces) returned success, the answer is HTTP 200 with status
\* "success", on the embedding path and on the heuristic path.
C25_SuccessIsAnsweredWithSuccess ==
    (Answered /\ ~IsNone(ServiceResult) /\ ServiceResult.success) =>
        (response.code = 200 /\ response.status = "success")

\* C25: a successful heuristic verification with a mapping for
\* student_details has been answered with HTTP 500
C25_HeuristicSuccessAnsweredWithError ==
    /\ Answered
    /\ Verifying
    /\ ~FACE_RECOGNITION_AVAILABLE
    /\ ~IsNone(student_details)
    /\ ~IsNone(verification_result)
    /\ verification_result.success
    /\ "face_distance" \notin DOMAIN verification_result
    /\ response.code = 500
    /\ response.error_code = "VERIFICATION_EXCEPTION"

\* C26: when the extraction fails for both images of a comparison, the error
\* reported is the camera image's, with the CAMERA_IMAGE_ prefix; the ID card
\* image's error is reported only when the extraction of the camera image
\* succeeded.
C26_CameraErrorTakesPrecedence ==
    (~IsNone(comparison_result) /\ ~comparison_result.success) =>
        /\ (CameraExtractionFailed /\ IdCardExtractionFailed) =>
              comparison_result.error_code
                 = "CAMERA_IMAGE_" \o encoding1_result.error_code
        /\ comparison_result.error_code \in Prefixed({"ID_CARD_IMAGE_"}, ExtractionKinds) =>
              /\ encoding1_result.success
              /\ IdCardExtractionFailed
              /\ comparison_result.error_code
                    = "ID_CARD_IMAGE_" \o encoding2_result.error_code

\* C26 witness: the camera image shows no face and the ID card image several;
\* the comparison has reported CAMERA_IMAGE_NO_FACE_DETECTED
C26_Witness ==
    /\ FACE_RECOGNITION_AVAILABLE
    /\ ~IsNone(comparison_result)
    /\ CameraExtractionFailed
    /\ IdCardExtractionFailed
    /\ encoding1_result.error_code = "NO_FACE_DETECTED"
    /\ encoding2_result.error_code = "MULTIPLE_FACES_DETECTED"
    /\ comparison_result.error_code = "CAMERA_IMAGE_NO_FACE_DETECTED"

\* the camera service is between two calls, and the last one was the given
\* call
LastCameraCall(call) ==
    capture.pc = "idle" /\ ~IsNone(camera_result) /\ camera_result.call = call

\* C27: after any sequence of initialize_camera, capture_face_live and
\* release_camera calls, is_camera_active is true only if the service holds a
\* handle that was opened and delivered a test frame; a failed
\* initialize_camera never leaves the flag true; after release_camera the
\* flag is false and the handle is None.
C27_ActiveOnlyWithWorkingCamera ==
    /\ is_camera_active =>
          (~IsNone(camera) /\ camera.isOpened /\ camera.delivered)
    /\ (LastCameraCall("initialize_camera") /\ ~camera_result.result.success) =>
          ~is_camera_active
    /\ LastCameraCall("release_camera") => (~is_camera_active /\ IsNone(camera))

\* C27: initialize_camera has failed with CAMERA_NOT_FOUND on a service whose
\* camera was active; the flag is still true and the handle is not opened
C27_FailedInitializeLeavesActive ==
    /\ LastCameraCall("initialize_camera")
    /\ ~camera_result.result.success
    /\ camera_result.result.error_code = "CAMERA_NOT_FOUND"
    /\ is_camera_active
    /\ ~camera.isOpened

\* C27, the part on release_camera: after it the flag is false and the handle
\* is None
C27_ReleaseClears ==
    LastCameraCall("release_camera") => (~is_camera_active /\ IsNone(camera))

\* capture_face_live has returned from its loop
CaptureEnded == capture.pc = "returned" /\ "ret" \in DOMAIN capture

\* what a returned capture_face_live shows of its last iteration
CaptureOutcome ==
    CaptureEnded =>
        /\ capture.result.success =>
              /\ capture.ret
              /\ capture.key \in {"c", "C"}
              /\ capture.face_count = 1
              /\ Len(camera_folder) >= 1
              /\ camera_folder[Len(camera_folder)] =
                    [path |-> capture.result.image_path, face_count |-> 1]
        /\ ~capture.ret => capture.result = [success |-> FALSE,
                                             error_code |-> "FRAME_READ_ERROR"]
        /\ (capture.ret /\ capture.key \in {"q", "Q"}) =>
              capture.result = [success |-> FALSE, error_code |-> "CAPTURE_CANCELLED"]

\* what an iteration of the loop does to the folder and to the loop
CaptureIteration ==
    (capture.pc = "loop" /\ "ret" \in DOMAIN capture') =>
        /\ camera_folder' # camera_folder =>
              /\ capture'.ret /\ capture'.key \in {"c", "C"} /\ capture'.face_count = 1
              /\ capture'.pc = "returned" /\ capture'.result.success
              /\ Len(camera_folder') = Len(camera_folder) + 1
        /\ (capture'.ret /\ capture'.key \in {"c", "C"} /\ capture'.face_count # 1) =>
              (camera_folder' = camera_folder /\ capture'.pc = "loop")
        /\ (capture'.ret /\ capture'.key \in {"q", "Q"}) =>
              (camera_folder' = camera_folder /\ capture'.pc = "returned")
        /\ ~capture'.ret =>
              (camera_folder' = camera_folder /\ capture'.pc = "returned")

\* C28: capture_face_live saves an image and returns success only for a frame
\* with exactly one face at the moment 'C' was pressed; 'C' on a frame with 0
\* or with 2 or more faces saves nothing and keeps the loop running; 'Q' ends
\* the loop with CAPTURE_CANCELLED and nothing written; a frame read failure
\* ends it with FRAME_READ_ERROR.
C28_CapturesOnlySingleFace == []CaptureOutcome /\ [][CaptureIteration]_vars

\* C28 witness: after a first capture, 'C' on a frame with one face has
\* written the second image and capture_face_live has returned success
C28_Witness ==
    /\ CaptureEnded
    /\ capture.result.success
    /\ capture.key = "C"
    /\ capture.face_count = 1
    /\ Len(camera_folder) = 2
    /\ camera_folder[2].path = capture.result.image_path

\* the threads whose extract_text_from_pdf has returned success
PdfSucceeded ==
    {t \in Threads : pdf_threads[t].pc = "returned" /\ pdf_threads[t].result.success}

\* the text of a PDF file, as extract_text_from_pdf reads it
OwnText(file) == strip(JoinPages(file.pages))

\* C29: with two requests inside extract_text_from_pdf on the shared
\* PDFService, the text, the student_details and the text_length of each
\* successful result are those of the PDF passed to that call.
C29_ResultFromOwnPdf ==
    \A t \in PdfSucceeded :
        /\ pdf_threads[t].result.text = OwnText(pdf_threads[t].file)
        /\ pdf_threads[t].result.student_details
              = parse_student_details(OwnText(pdf_threads[t].file))
        /\ pdf_threads[t].result.text_length = len(OwnText(pdf_threads[t].file))

\* C29: the call on Asha's card has returned Ravi's text and register number,
\* the other thread being inside extract_text_from_pdf with Ravi's card
C29_ResultFromOtherPdf ==
    /\ "thread1" \in PdfSucceeded
    /\ pdf_threads["thread1"].file = CardAsha
    /\ pdf_threads["thread2"].pc \notin {"idle", "returned"}
    /\ pdf_threads["thread2"].file = CardRavi
    /\ pdf_threads["thread1"].result.text = OwnText(CardRavi)
    /\ pdf_threads["thread1"].result.student_details.register_number = "22EE042"

\* C29, one call at a time: run without interruption, extract_text_from_pdf
\* returns the text, the details and the length of its own PDF
C29_UninterruptedResultFromOwnPdf ==
    \A file \in Pdfs : \A attribute \in {<<>>} \cup {OwnText(other) : other \in Pdfs} :
        LET result == extract_text_from_pdf(file, attribute).result
        IN  result.success =>
               /\ result.text = OwnText(file)
               /\ result.text_length = len(OwnText(file))

\* an /upload-id-card request is being served, or has just been answered
Uploading == "pc" \in DOMAIN upload

\* the request at hand has been answered without a call of process_id_card
UploadRejected ==
    Uploading /\ upload.pc = "done" /\ "processing_result" \notin DOMAIN upload

\* the request at hand has been answered after process_id_card
UploadProcessed ==
    Uploading /\ upload.pc = "done" /\ "processing_result" \in DOMAIN upload

\* the files of the folder that no request is still working on
SettledPaths ==
    {path \in DOMAIN upload_folder :
        ~(Uploading /\ upload.pc = "process" /\ upload.file_path = path)}

\* what the folder holds once a request is answered
UploadOutcome ==
    /\ UploadRejected =>
          /\ upload.response.code = 400
          /\ upload.response.error_code
                \in {"NO_FILE", "NO_FILE_SELECTED", "INVALID_FORMAT"}
          /\ IsNone(upload.file_path)
    /\ (UploadProcessed /\ ~upload.processing_result.success) =>
          /\ upload.response.code = 400
          /\ upload.file_path \notin DOMAIN upload_folder
    /\ (UploadProcessed /\ upload.processing_result.success) =>
          /\ upload.response.code = 200
          /\ upload.file_path \in DOMAIN upload_folder
          /\ upload_folder[upload.file_path] = upload.file.content
    /\ \A path \in SettledPaths :
          process_id_card(FileAt(upload_folder, path), <<>>).result.success

\* a request that is rejected leaves the folder as it was
RejectionWritesNothing ==
    (~Uploading /\ "pc" \in DOMAIN upload' /\ upload'.pc = "done") =>
        upload_folder' = upload_folder

\* C30: in /upload-id-card the saved upload persists only for a successfully
\* processed ID card: when process_id_card reports failure the file saved for
\* the request is deleted before the 400 answer, when it reports success the
\* file is kept, and a request rejected for a missing, empty or non-PDF file
\* name never writes a file.
C30_UploadKeptOnlyOnSuccess == []UploadOutcome /\ [][RejectionWritesNothing]_vars

\* C30 witness: a PDF without text uploaded as card.pdf has been answered 400
\* and is gone from the folder, where an earlier upload is kept
C30_Witness ==
    /\ UploadProcessed
    /\ upload.file.filename = <<"card", "pdf">>
    /\ upload.file.content = ScannedCard
    /\ ~upload.processing_result.success
    /\ upload.response.code = 400
    /\ upload.file_path \notin DOMAIN upload_folder
    /\ DOMAIN upload_folder # {}

====
